---- MODULE Spec2Model ----
(***************************************************************************)
(* State-machine model of the SMMUv3 DXE driver (ArmPkg/Drivers/SmmuDxe):  *)
(* the stage-2 identity page table (IoMmu.c), the command and event queue  *)
(* protocol (SmmuV3Util.c) and the IOMMU protocol entry points built on    *)
(* them.                                                                   *)
(*                                                                         *)
(* Numbers are the driver's own values.  TLC integers are 32 bits wide, so *)
(* every address the model uses lies below 2^31; the level-0 index of such *)
(* an address is 0 and shifts are computed by repeated halving.            *)
(* ASSERT_EFI_ERROR is modelled as in a build with asserts disabled: the   *)
(* status is returned to the caller.                                       *)
(***************************************************************************)
EXTENDS Integers, Sequences, FiniteSets, TLC

VARIABLES
  phase,      \* "config": SmmuV3Configure is about to invalidate caches;
              \* "ready": IOMMU protocol installed; "failed": bring-up failed;
              \* "halted": the CPU faulted on a NULL dereference;
              \* "none": a partial model is in use
  pt,         \* page-table memory: table page address -> (index -> entry)
  allocated,  \* number of pages handed out by AllocatePages so far
  maps,       \* live IOMMU_MAP_INFO records, by handle
  cmdq,       \* command queue memory: slot -> opcode
  cmdqProd,   \* SMMU_CMDQ_PROD
  cmdqCons,   \* SMMU_CMDQ_CONS
  evtq,       \* event queue memory: byte offset -> byte
  evtqProd,   \* SMMU_EVENTQ_PROD
  evtqCons,   \* SMMU_EVENTQ_CONS
  nevents,    \* number of events the SMMU has posted (bounded)
  ncalls,     \* number of IOMMU protocol calls made so far (bounded)
  call,       \* the most recent protocol call: operation, arguments, results
  sent,       \* one record per SmmuV3SendCommand made by the most recent call
  rt,         \* round-trip observer: the page table before the latest Map
  fnin,       \* arguments of a function evaluated on its own
  fnout,      \* its result
  consumer,   \* a SmmuV3ConsumeEventQueueForErrors call in progress and its result
  regs,       \* SMMU registers of bring-up and teardown: CR0, CR0ACK, GBPA, GERROR,
              \* CR2, IDR0
  boot,       \* InitializeSmmuDxe: position, status, resources, protocol
  sender      \* an operation in progress, wait by wait and store by store

driver == <<phase, pt, allocated, maps, cmdq, cmdqProd, cmdqCons,
            evtq, evtqProd, evtqCons, nevents, ncalls, call, sent, rt>>

aux == <<fnin, fnout, consumer, regs, boot, sender>>

vars == <<phase, pt, allocated, maps, cmdq, cmdqProd, cmdqCons,
          evtq, evtqProd, evtqCons, nevents, ncalls, call, sent, rt,
          fnin, fnout, consumer, regs, boot, sender>>

-----------------------------------------------------------------------------
(* Bounds of the model *)

MaxMaps == 2         \* live mapping handles at one time
MaxEvents == 1       \* events the SMMU posts in one run
MaxCalls == 3        \* IOMMU protocol calls in one run
MaxQueueLog2 == 3    \* largest queue size (log2) of the queue predicates' inputs
MaxFaults == 3       \* events the SMMU posts while the event queue is examined
MaxDequeues == 3     \* SmmuV3ConsumeEventQueueForErrors calls in one run
CmdQLog2 == 1        \* IDR1.CMDQS as read by SmmuV3AllocateCommandQueue
EvtQLog2 == 1        \* IDR1.EVENTQS as read by SmmuV3AllocateEventQueue

(* Program constants *)

PAGE_TABLE_DEPTH == 4
PAGE_TABLE_READ_BIT == 64
PAGE_TABLE_WRITE_BIT == 128
PAGE_TABLE_ENTRY_VALID_BIT == 1
PAGE_TABLE_BLOCK_OFFSET == 4095
PAGE_TABLE_ACCESS_FLAG == 1024
PAGE_TABLE_DESCRIPTOR == 2
PAGE_TABLE_SIZE == 512
EFI_PAGE_SIZE == 4096
EDKII_IOMMU_ACCESS_READ == 1
EDKII_IOMMU_ACCESS_WRITE == 2
PollCount == 10
CmdCfgiSteRange == 4
CmdTlbiEl2All == 32
CmdTlbiNsnhAll == 48
CmdSync == 70
SMMUV3_EVENT_QUEUE_ENTRY_SIZE == 32
CURRENT_SMMU_CONFIG_VERSION_MAJOR == 0
CURRENT_SMMU_CONFIG_VERSION_MINOR == 7

EFI_SUCCESS == "EFI_SUCCESS"
EFI_INVALID_PARAMETER == "EFI_INVALID_PARAMETER"
EFI_OUT_OF_RESOURCES == "EFI_OUT_OF_RESOURCES"
EFI_TIMEOUT == "EFI_TIMEOUT"
EFI_NOT_FOUND == "EFI_NOT_FOUND"
EFI_DEVICE_ERROR == "EFI_DEVICE_ERROR"
EFI_INCOMPATIBLE_VERSION == "EFI_INCOMPATIBLE_VERSION"

\* An EFI_STATUS that no statement of the driver assigns: a non-zero value
\* with bit 63 clear (0x600C000000, 5), and a value with bit 63 set
\* (0xFFFFFFFFFFFFF000, or the value of an error code)
StatusNonError == "non-zero, bit 63 clear"
StatusError == "bit 63 set"

\* EFI_ERROR (Status): bit 63 of the status is set
EFI_ERROR(Status) == Status \notin {EFI_SUCCESS, StatusNonError}

\* The local "EFI_STATUS Status;" of UpdatePageTable as declared, before any
\* assignment, and the values it can hold then, whatever the stack or the
\* register held: zero, another value that EFI_ERROR lets pass, a value that
\* EFI_ERROR takes for an error
Uninitialized == "uninitialized"
UninitializedStatus == {EFI_SUCCESS, StatusNonError, StatusError}

\* The results of a function that returned R, its status read from a local
\* that may never have been assigned
ReadOfStatus(R) ==
  IF R.Status = Uninitialized
  THEN {[R EXCEPT !.Status = Value] : Value \in UninitializedStatus}
  ELSE {R}

-----------------------------------------------------------------------------
(* A UINT64 is held as the integer congruent to it modulo 2^64 that lies in  *)
(* -2^31 .. 2^31 - 1: the values below 2^31 are themselves, and 2^64 - n is  *)
(* -n (0xFFFFFFFFFFFFF000 is -4096).  A sum or difference of two of them is  *)
(* then the UINT64 sum or difference, wrap included, and the UINT64 order is *)
(* UInt64Less.  \div rounds down and % is non-negative, so that a shift to   *)
(* the right, a mask with a non-negative value and ALIGN_VALUE give the      *)
(* UINT64 results as well.                                                   *)

\* a < b for UINT64 a and b
UInt64Less(a, b) == IF (a < 0) = (b < 0) THEN a < b ELSE b < 0

(* Bit operations; the second operand is not negative *)

RECURSIVE BitAnd(_, _)
BitAnd(a, b) ==
  IF a = 0 \/ b = 0 THEN 0
  ELSE (a % 2) * (b % 2) + 2 * BitAnd(a \div 2, b \div 2)

RECURSIVE BitOr(_, _)
BitOr(a, b) ==
  IF a = 0 THEN b
  ELSE IF b = 0 THEN a
  ELSE (IF a % 2 = 1 \/ b % 2 = 1 THEN 1 ELSE 0) + 2 * BitOr(a \div 2, b \div 2)

RECURSIVE BitXor(_, _)
BitXor(a, b) ==
  IF a = 0 THEN b
  ELSE IF b = 0 THEN a
  ELSE ((a + b) % 2) + 2 * BitXor(a \div 2, b \div 2)

\* a & ~m
BitClear(a, m) == a - BitAnd(a, m)

RECURSIVE ShiftRight(_, _)
ShiftRight(a, n) == IF n = 0 \/ a = 0 THEN a ELSE ShiftRight(a \div 2, n - 1)

RECURSIVE ShiftLeft(_, _)
ShiftLeft(a, n) == IF n = 0 THEN a ELSE ShiftLeft(2 * a, n - 1)

\* ALIGN_VALUE (Value, Alignment) as UpdatePageTable uses it: Value rounded up
\* to a multiple of Alignment, in UINT64 (2^64 - 1 rounds up to 0)
ALIGN_VALUE(Value, Alignment) ==
  Value + ((Alignment - (Value % Alignment)) % Alignment)

-----------------------------------------------------------------------------
(* Page-table memory.  A table page is a function from the indices of its   *)
(* non-zero entries to their values; every other entry of the page reads 0. *)

PoolBase == 4096 * EFI_PAGE_SIZE        \* first page AllocatePages returns
PageTableRoot == PoolBase               \* mSmmu->PageTableRoot (PageTableInit)

EmptyPage == [i \in {} |-> 0]

ReadEntry(Table, Index) == IF Index \in DOMAIN Table THEN Table[Index] ELSE 0

WriteEntry(Table, Index, Value) ==
  IF Value = 0
  THEN [j \in DOMAIN Table \ {Index} |-> Table[j]]
  ELSE [j \in DOMAIN Table \cup {Index} |-> IF j = Index THEN Value ELSE Table[j]]

\* AllocatePages (1): the next free page, or NULL once Limit pages are in use
AllocatePages(Used, Limit) ==
  IF Used < Limit THEN PoolBase + Used * EFI_PAGE_SIZE ELSE 0

\* Variant: the level counted from PAGE_TABLE_DEPTH instead of PAGE_TABLE_DEPTH - 1
PAGE_TABLE_INDEX_OffByOne(VirtualAddress, Level) ==
  BitAnd(ShiftRight(VirtualAddress, 12 + (9 * (PAGE_TABLE_DEPTH - Level))), 511)

PAGE_TABLE_INDEX(VirtualAddress, Level) ==
  BitAnd(ShiftRight(VirtualAddress, 12 + (9 * (PAGE_TABLE_DEPTH - 1 - Level))), 511)

\* Variant: the access bits shifted to bit 7 instead of bit 6
PAGE_TABLE_READ_WRITE_FROM_IOMMU_ACCESS_Shift7(IoMmuAccess) == ShiftLeft(IoMmuAccess, 7)

PAGE_TABLE_READ_WRITE_FROM_IOMMU_ACCESS(IoMmuAccess) == ShiftLeft(IoMmuAccess, 6)

\* Variant: revoking clears every low attribute bit, not only READ and WRITE
UpdateFlagsClearAll(Table, SetReadWriteFlagsOnly, Flags, Index) ==
  IF BitClear(Flags, PAGE_TABLE_BLOCK_OFFSET) # 0 \/ Index >= PAGE_TABLE_SIZE
  THEN [Status |-> EFI_INVALID_PARAMETER, Table |-> Table]
  ELSE LET Entry == ReadEntry(Table, Index)
           New == IF SetReadWriteFlagsOnly
                  THEN IF Flags # 0
                       THEN BitOr(Entry, Flags)
                       ELSE BitClear(Entry, PAGE_TABLE_BLOCK_OFFSET)
                  ELSE BitOr(Entry, Flags)
       IN [Status |-> EFI_SUCCESS, Table |-> WriteEntry(Table, Index, New)]

UpdateFlags(Table, SetReadWriteFlagsOnly, Flags, Index) ==
  IF BitClear(Flags, PAGE_TABLE_BLOCK_OFFSET) # 0 \/ Index >= PAGE_TABLE_SIZE
  THEN [Status |-> EFI_INVALID_PARAMETER, Table |-> Table]
  ELSE LET Entry == ReadEntry(Table, Index)
           New == IF SetReadWriteFlagsOnly
                  THEN IF Flags # 0
                       THEN BitOr(Entry, Flags)
                       ELSE BitClear(Entry, PAGE_TABLE_READ_BIT + PAGE_TABLE_WRITE_BIT)
                  ELSE BitOr(Entry, Flags)
       IN [Status |-> EFI_SUCCESS, Table |-> WriteEntry(Table, Index, New)]

\* Variant: the entry is left as it is
InvalidateEntryKeep(Entry) == Entry

\* Variant: the whole entry is zeroed
InvalidateEntryZero(Entry) == 0

\* The leaf write of UpdateMapping for !Valid: only VALID is cleared
InvalidateEntry(Entry) == BitClear(Entry, PAGE_TABLE_ENTRY_VALID_BIT)

\* Variant: only the address field is replaced, the low 12 bits are kept
AssignLeafKeepAttributes(Entry, PhysicalAddress) ==
  BitOr(BitOr(BitClear(PhysicalAddress, PAGE_TABLE_BLOCK_OFFSET), BitAnd(Entry, PAGE_TABLE_BLOCK_OFFSET)), PAGE_TABLE_ENTRY_VALID_BIT)

\* The leaf write of UpdateMapping for Valid: the entry is assigned the page
\* address, then VALID is set
AssignLeaf(Entry, PhysicalAddress) ==
  BitOr(BitClear(PhysicalAddress, PAGE_TABLE_BLOCK_OFFSET), PAGE_TABLE_ENTRY_VALID_BIT)

\* The leaf-level part of UpdateMapping, Current being the level-3 table.
UpdateLeaf(S, Current, A) ==
  IF Current = 0
  THEN [Mem |-> S.Mem, Used |-> S.Used, Status |-> EFI_SUCCESS]
  ELSE LET Index == PAGE_TABLE_INDEX(A.VirtualAddress, PAGE_TABLE_DEPTH - 1)
           T0 == S.Mem[Current]
           T1 == IF ~A.SetReadWriteFlagsOnly
                 THEN IF A.Valid
                      THEN WriteEntry(T0, Index, AssignLeaf(ReadEntry(T0, Index), A.PhysicalAddress))
                      ELSE WriteEntry(T0, Index, InvalidateEntry(ReadEntry(T0, Index)))
                 ELSE T0
           F == UpdateFlags(T1, A.SetReadWriteFlagsOnly, A.Flags, Index)
       IN [Mem |-> [S.Mem EXCEPT ![Current] = F.Table], Used |-> S.Used,
           Status |-> F.Status]

\* What a page holds when AllocatePages returns it: anything, here an entry
\* left by an earlier owner of the page
PoolGarbage == [i \in {0} |-> PageTableRoot + PAGE_TABLE_ENTRY_VALID_BIT]

\* Variant: the new page is linked as AllocatePages returned it
ZeroMemSkipped(Buffer) == Buffer

\* ZeroMem (NewPage, EFI_PAGE_SIZE)
ZeroMem(Buffer) == EmptyPage

\* Variant: a table entry is not marked valid
MarkValidNot(Entry) == Entry

\* "Current->Entries[Index] |= PAGE_TABLE_ENTRY_VALID_BIT" of levels 0..2
MarkValid(Entry) == BitOr(Entry, PAGE_TABLE_ENTRY_VALID_BIT)

\* The loop of UpdateMapping over levels 0..2, then the leaf.
RECURSIVE UpdateMappingFrom(_, _, _, _)
UpdateMappingFrom(S, Current, Level, A) ==
  IF Level >= PAGE_TABLE_DEPTH - 1
  THEN UpdateLeaf(S, Current, A)
  ELSE LET Index == PAGE_TABLE_INDEX(A.VirtualAddress, Level)
           Absent == ReadEntry(S.Mem[Current], Index) = 0
           NewPage == AllocatePages(S.Used, S.Limit)
       IN IF Absent /\ NewPage = 0
          THEN [Mem |-> S.Mem, Used |-> S.Used, Status |-> EFI_OUT_OF_RESOURCES]
          ELSE LET M1 == IF Absent
                         THEN [t \in DOMAIN S.Mem \cup {NewPage} |->
                                 IF t = NewPage THEN ZeroMem(PoolGarbage)
                                 ELSE IF t = Current
                                      THEN WriteEntry(S.Mem[Current], Index, NewPage)
                                      ELSE S.Mem[t]]
                         ELSE S.Mem
                   U1 == IF Absent THEN S.Used + 1 ELSE S.Used
                   T1 == IF ~A.SetReadWriteFlagsOnly /\ A.Valid
                         THEN WriteEntry(M1[Current], Index, MarkValid(ReadEntry(M1[Current], Index)))
                         ELSE M1[Current]
                   F == UpdateFlags(T1, A.SetReadWriteFlagsOnly, A.Flags, Index)
                   M2 == [M1 EXCEPT ![Current] = F.Table]
                   Next1 == BitClear(ReadEntry(F.Table, Index), PAGE_TABLE_BLOCK_OFFSET)
               IN IF F.Status # EFI_SUCCESS
                  THEN [Mem |-> M2, Used |-> U1, Status |-> F.Status]
                  ELSE UpdateMappingFrom([Mem |-> M2, Used |-> U1, Limit |-> S.Limit],
                                         Next1, Level + 1, A)

UpdateMapping(S, Root, VirtualAddress, PhysicalAddress, Flags, Valid, SetReadWriteFlagsOnly) ==
  IF Root = 0 \/ BitClear(Flags, PAGE_TABLE_BLOCK_OFFSET) # 0 \/ PhysicalAddress = 0
  THEN [Mem |-> S.Mem, Used |-> S.Used, Status |-> EFI_INVALID_PARAMETER]
  ELSE UpdateMappingFrom(S, Root, 0,
         [VirtualAddress |-> VirtualAddress, PhysicalAddress |-> PhysicalAddress,
          Flags |-> Flags, Valid |-> Valid,
          SetReadWriteFlagsOnly |-> SetReadWriteFlagsOnly])

\* The while loop of UpdatePageTable and the return after it; Status is the
\* local variable, returned as it is when the loop has no iteration.
RECURSIVE UpdatePageTableLoop(_, _, _, _, _, _, _, _)
UpdatePageTableLoop(S, Root, CurPhysicalAddress, PhysicalAddressEnd, Flags, Valid, SetReadWriteFlagsOnly, Status) ==
  IF UInt64Less(CurPhysicalAddress, PhysicalAddressEnd)
  THEN LET R == UpdateMapping(S, Root, CurPhysicalAddress, CurPhysicalAddress,
                              Flags, Valid, SetReadWriteFlagsOnly)
       IN IF EFI_ERROR(R.Status)
          THEN R
          ELSE UpdatePageTableLoop([Mem |-> R.Mem, Used |-> R.Used, Limit |-> S.Limit],
                                   Root, CurPhysicalAddress + EFI_PAGE_SIZE,
                                   PhysicalAddressEnd, Flags, Valid,
                                   SetReadWriteFlagsOnly, R.Status)
  ELSE [Mem |-> S.Mem, Used |-> S.Used, Status |-> Status]

UpdatePageTable(S, Root, PhysicalAddress, Bytes, Flags, Valid, SetReadWriteFlagsOnly) ==
  IF Root = 0 \/ BitClear(Flags, PAGE_TABLE_BLOCK_OFFSET) # 0
     \/ PhysicalAddress = 0 \/ Bytes = 0
  THEN [Mem |-> S.Mem, Used |-> S.Used, Status |-> EFI_INVALID_PARAMETER]
  ELSE UpdatePageTableLoop(S, Root, PhysicalAddress,
                           ALIGN_VALUE(PhysicalAddress + Bytes, EFI_PAGE_SIZE),
                           Flags, Valid, SetReadWriteFlagsOnly, Uninitialized)

-----------------------------------------------------------------------------
(* Command queue.  The SMMU runs concurrently with the driver.  Within one  *)
(* SmmuV3SendCommand its progress is the input Lat: the SMMU lets Lat reads  *)
(* of SMMU_CMDQ_CONS go by without progress and then consumes one entry     *)
(* before each later read, as long as CONS differs from PROD.               *)

SMMUV3_COUNT_FROM_LOG2(Log2Size) == ShiftLeft(1, Log2Size)

\* Variant: the wrap bits are not compared
SMMUV3_IS_QUEUE_EMPTY_NoWrap(ProducerIndex, ProducerWrap, ConsumerIndex, ConsumerWrap) ==
  ProducerIndex = ConsumerIndex

SMMUV3_IS_QUEUE_EMPTY(ProducerIndex, ProducerWrap, ConsumerIndex, ConsumerWrap) ==
  (ProducerIndex = ConsumerIndex) /\ (ProducerWrap = ConsumerWrap)

\* Variant: a queue that is never found full
SMMUV3_IS_QUEUE_FULL_Never(ProducerIndex, ProducerWrap, ConsumerIndex, ConsumerWrap) ==
  FALSE

SMMUV3_IS_QUEUE_FULL(ProducerIndex, ProducerWrap, ConsumerIndex, ConsumerWrap) ==
  (ProducerIndex = ConsumerIndex) /\ (ProducerWrap # ConsumerWrap)

CmdQEntries == SMMUV3_COUNT_FROM_LOG2(CmdQLog2)
EvtQEntries == SMMUV3_COUNT_FROM_LOG2(EvtQLog2)

\* The SMMU's command consumer: one entry, index and wrap bit advancing together
SmmuConsumeOne(Cons, Prod) ==
  IF Cons # Prod THEN (Cons + 1) % (2 * CmdQEntries) ELSE Cons

\* SMMU_CMDQ_CONS as the Reads-th read of one SmmuV3SendCommand finds it
SmmuProgress(Cons, Prod, Reads, Lat) ==
  IF Reads > Lat THEN SmmuConsumeOne(Cons, Prod) ELSE Cons

\* SmmuV3WriteCommands with CommandCount = 1
SmmuV3WriteCommands(Mem, StartingIndex, Command) ==
  LET WrapMask == ShiftLeft(1, CmdQLog2)
      QueueMask == WrapMask - 1
  IN [Mem EXCEPT ![BitAnd(StartingIndex + 0, QueueMask)] = Command]

\* First loop of SmmuV3SendCommand: wait while the queue is full.
\* L = [Count, Reads, Cons (the register), ConsRead (the driver's copy)]
RECURSIVE WaitWhileFull(_, _, _)
WaitWhileFull(L, Prod, Lat) ==
  LET WrapMask == CmdQEntries
      QueueMask == WrapMask - 1
  IN IF L.Count > 0
        /\ SMMUV3_IS_QUEUE_FULL(BitAnd(Prod, QueueMask), BitAnd(Prod, WrapMask),
                                BitAnd(L.ConsRead, QueueMask), BitAnd(L.ConsRead, WrapMask))
     THEN LET c == SmmuProgress(L.Cons, Prod, L.Reads + 1, Lat)
          IN WaitWhileFull([Count |-> L.Count - 1, Reads |-> L.Reads + 1,
                            Cons |-> c, ConsRead |-> c], Prod, Lat)
     ELSE L

\* Second loop of SmmuV3SendCommand: wait for the command to be consumed.
RECURSIVE WaitConsumed(_, _, _)
WaitConsumed(L, ProdWritten, Lat) ==
  IF L.Count > 0 /\ L.ConsRead < ProdWritten
  THEN LET c == SmmuProgress(L.Cons, ProdWritten, L.Reads + 1, Lat)
       IN WaitConsumed([Count |-> L.Count - 1, Reads |-> L.Reads + 1,
                        Cons |-> c, ConsRead |-> c], ProdWritten, Lat)
  ELSE L

\* The producer index SmmuV3SendCommand writes to SMMU_CMDQ_PROD
NewProducer(ProducerIndex, QueueMask, WrapMask) ==
  BitAnd(ProducerIndex + 1, BitOr(QueueMask, WrapMask))

\* Q = [Mem, Prod, Cons]; the result adds Status and Log (what the call did)
SmmuV3SendCommand(Q, Command, Lat) ==
  LET TotalQueueEntries == SMMUV3_COUNT_FROM_LOG2(CmdQLog2)
      WrapMask == TotalQueueEntries
      QueueMask == WrapMask - 1
      c0 == SmmuProgress(Q.Cons, Q.Prod, 1, Lat)
      L1 == WaitWhileFull([Count |-> PollCount, Reads |-> 1, Cons |-> c0, ConsRead |-> c0],
                          Q.Prod, Lat)
      ProducerWrap == BitAnd(Q.Prod, WrapMask)
      ProducerIndex == BitAnd(Q.Prod, QueueMask)
      ConsumerWrap == BitAnd(L1.ConsRead, WrapMask)
      ConsumerIndex == BitAnd(L1.ConsRead, QueueMask)
  IN IF L1.Count = 0
        /\ SMMUV3_IS_QUEUE_FULL(ProducerIndex, ProducerWrap, ConsumerIndex, ConsumerWrap)
     THEN [Mem |-> Q.Mem, Prod |-> Q.Prod, Cons |-> L1.Cons, Status |-> EFI_TIMEOUT,
           Log |-> [Prod |-> Q.Prod, Wrote |-> FALSE, NewProd |-> Q.Prod,
                    ConsRet |-> L1.Cons, Status |-> EFI_TIMEOUT]]
     ELSE LET Mem1 == SmmuV3WriteCommands(Q.Mem, ProducerIndex, Command)
              Written == NewProducer(ProducerIndex, QueueMask, WrapMask)
              c1 == SmmuProgress(L1.Cons, Written, L1.Reads + 1, Lat)
              L2 == WaitConsumed([Count |-> PollCount, Reads |-> L1.Reads + 1,
                                  Cons |-> c1, ConsRead |-> c1], Written, Lat)
              Status == IF L2.Count = 0 /\ L2.ConsRead < Written
                        THEN EFI_TIMEOUT ELSE EFI_SUCCESS
          IN [Mem |-> Mem1, Prod |-> Written, Cons |-> L2.Cons, Status |-> Status,
              Log |-> [Prod |-> Q.Prod, Wrote |-> TRUE, NewProd |-> Written,
                       ConsRet |-> L2.Cons, Status |-> Status]]

\* SMMU latencies (in reads of SMMU_CMDQ_CONS) during one SmmuV3SendCommand:
\* at once, after two reads, not before the call has given up
NeverInCall == 2 * PollCount + 3
HwLatencies == {0, 2, NeverInCall}

\* Commands sent one after the other, stopping at the first failure, as in
\* IoMmuUnmap and SmmuV3Configure: every outcome the SMMU's latencies allow.
\* R = [Mem, Prod, Cons, Status, Logs]
RECURSIVE SendCommands(_, _)
SendCommands(R, Commands) ==
  IF Commands = << >> \/ R.Status # EFI_SUCCESS
  THEN {R}
  ELSE UNION { LET r == SmmuV3SendCommand([Mem |-> R.Mem, Prod |-> R.Prod, Cons |-> R.Cons],
                                          Head(Commands), Lat)
               IN SendCommands([Mem |-> r.Mem, Prod |-> r.Prod, Cons |-> r.Cons,
                                Status |-> r.Status, Logs |-> Append(R.Logs, r.Log)],
                               Tail(Commands)) : Lat \in HwLatencies }

-----------------------------------------------------------------------------
(* Event queue.  Its memory is modelled byte by byte: an entry is a         *)
(* SMMUV3_FAULT_RECORD of 32 bytes, entry k lying at byte offset 32 * k.    *)

\* CopyMem (Destination, Source, Length) out of the memory Mem: the Length
\* bytes that start at byte offset Source
CopyMem(Mem, Source, Length) == [i \in 0 .. (Length - 1) |-> Mem[Source + i]]

\* SmmuInfo->EventQueue + ConsumerIndex: EventQueue is a VOID *, on which the
\* GCC and clang builds of the driver do byte arithmetic (sizeof (VOID) = 1)
EventQueueOffset(ConsumerIndex) == ConsumerIndex * 1

\* Variant: the wrap bit is not flipped when the consumer index wraps
NextConsumerKeepWrap(ConsumerIndex, ConsumerWrap, TotalQueueEntries, WrapMask) ==
  BitOr(IF ConsumerIndex + 1 = TotalQueueEntries THEN 0 ELSE ConsumerIndex + 1,
        ConsumerWrap)

\* The consumer index SmmuV3ConsumeEventQueueForErrors writes to SMMU_EVENTQ_CONS
NextConsumer(ConsumerIndex, ConsumerWrap, TotalQueueEntries, WrapMask) ==
  LET Index1 == ConsumerIndex + 1
      NewIndex == IF Index1 = TotalQueueEntries THEN 0 ELSE Index1
      NewWrap == IF Index1 = TotalQueueEntries
                 THEN BitXor(ConsumerWrap, WrapMask) ELSE ConsumerWrap
  IN BitOr(NewIndex, NewWrap)

\* E = [Mem, Prod, Cons]; FaultRecord is the caller's buffer as passed in;
\* EventQueueLog2Size is the field of SMMU_INFO (0 until SmmuV3Configure has
\* both queues)
ConsumeEventQueue(E, FaultRecord, EventQueueLog2Size) ==
  LET TotalQueueEntries == SMMUV3_COUNT_FROM_LOG2(EventQueueLog2Size)
      WrapMask == TotalQueueEntries
      QueueMask == TotalQueueEntries - 1
      ProducerIndex == BitAnd(E.Prod, QueueMask)
      ProducerWrap == BitAnd(E.Prod, WrapMask)
      ConsumerIndex == BitAnd(E.Cons, QueueMask)
      ConsumerWrap == BitAnd(E.Cons, WrapMask)
  IN IF SMMUV3_IS_QUEUE_EMPTY(ProducerIndex, ProducerWrap, ConsumerIndex, ConsumerWrap)
     THEN [Status |-> EFI_SUCCESS, IsEmpty |-> TRUE, FaultRecord |-> FaultRecord,
           Cons |-> E.Cons, WroteCons |-> FALSE]
     ELSE [Status |-> EFI_SUCCESS, IsEmpty |-> FALSE,
           FaultRecord |-> CopyMem(E.Mem, EventQueueOffset(ConsumerIndex),
                                   SMMUV3_EVENT_QUEUE_ENTRY_SIZE),
           Cons |-> NextConsumer(ConsumerIndex, ConsumerWrap, TotalQueueEntries, WrapMask),
           WroteCons |-> TRUE]

\* The function on the driver that is up: the queue has 2^EvtQLog2 entries
SmmuV3ConsumeEventQueueForErrors(E, FaultRecord) == ConsumeEventQueue(E, FaultRecord, EvtQLog2)

\* SmmuV3LogErrors: the value it leaves in SMMU_EVENTQ_CONS.  Its FaultRecord
\* is an uninitialised local (Junk) that it prints only when IsEmpty is FALSE.
SmmuV3LogErrors(E, Junk) == SmmuV3ConsumeEventQueueForErrors(E, Junk).Cons

\* SMMU_GERROR as SmmuV3LogErrors and SmmuV3Configure read it (set of bits)
GErrorValues == { {}, {0} }

\* SmmuV3LogErrors: what it prints, the fault record when the event queue was
\* not empty and GERROR when it is not zero
SmmuV3LogErrorsPrints(E, GError) ==
  LET C == SmmuV3ConsumeEventQueueForErrors(E, 0)
  IN [Fault |-> IF C.IsEmpty THEN << >> ELSE <<C.FaultRecord>>,
      GError |-> IF GError # {} THEN <<GError>> ELSE << >>]

\* Variant: a handler fails with a device error when SmmuV3LogErrors found
\* GERROR set or a fault record, as SmmuV3Configure does for GERROR
ReturnAfterLogErrorsChecked(Status, Printed) ==
  IF Status = EFI_SUCCESS /\ (Printed.GError # << >> \/ Printed.Fault # << >>)
  THEN EFI_DEVICE_ERROR ELSE Status

\* "SmmuV3LogErrors (mSmmu); return Status;" at the end of IoMmuMap,
\* IoMmuUnmap and IoMmuSetAttribute: SmmuV3LogErrors returns nothing
ReturnAfterLogErrors(Status, Printed) == Status

-----------------------------------------------------------------------------
(* Inputs of the model *)

HostA == 262143 * EFI_PAGE_SIZE      \* last page below 1 GiB: indices 0, 0, 511, 511
HostB == HostA + 2048                \* not page aligned
PageA == HostA
PageB == HostA + EFI_PAGE_SIZE       \* first page of the next GiB: indices 0, 1, 0, 0
HostTop == 0 - EFI_PAGE_SIZE         \* 0xFFFFFFFFFFFFF000, the last page of the address space

\* <<HostAddress, *NumberOfBytes>> as passed to IoMmuMap: a NULL host, no
\* byte, one page, a range with neither end on a page boundary that has one
\* byte in the page beyond the table boundary, and the page that ends at 2^64
MapInputs ==
  { <<0, EFI_PAGE_SIZE>>, <<HostA, 0>>, <<HostA, EFI_PAGE_SIZE>>,
    <<HostB, 2049>>, <<HostTop, EFI_PAGE_SIZE>> }

\* IoMmuAccess as passed to IoMmuSetAttribute; 4 is outside READ | WRITE
AccessInputs == {0, 1, 2, 3, 4}

\* Pages AllocatePages can still provide during one call
PagesAvailable == {1, 5}

\* An SMMUV3_FAULT_RECORD: the event number in byte 0, the StreamID from byte 4
FaultRecord(EventId, StreamId) ==
  [i \in 0 .. (SMMUV3_EVENT_QUEUE_ENTRY_SIZE - 1) |->
     IF i = 0 THEN EventId ELSE IF i = 4 THEN StreamId ELSE 0]

FaultRecords == {FaultRecord(16, 1)} \* F_TRANSLATION of stream 1

NoInfo == [NumberOfBytes |-> 0, VirtualAddress |-> 0, PhysicalAddress |-> 0]

NoCall == [op |-> "none", host |-> 0, bytes |-> 0, mptr |-> TRUE, mapping |-> 0,
           access |-> 0, status |-> "none", dev |-> 0, info |-> NoInfo]

NoRt == [st |-> "none", h |-> 0, before |-> << >>]

Handles == 1 .. MaxMaps

\* AllocateZeroPool (sizeof (IOMMU_MAP_INFO)): the lowest free handle
NewHandle == CHOOSE h \in Handles : h \notin DOMAIN maps /\ \A g \in 1 .. (h - 1) : g \in DOMAIN maps

EventQ == [Mem |-> evtq, Prod |-> evtqProd, Cons |-> evtqCons]
CommandQ == [Mem |-> cmdq, Prod |-> cmdqProd, Cons |-> cmdqCons,
             Status |-> EFI_SUCCESS, Logs |-> << >>]

-----------------------------------------------------------------------------
(* State *)

\* The variables of the partial models while they are not in use
NoFn == [fn |-> "none"]
NoConsumer == [pc |-> "none"]
NoRegs == [CR0 |-> 0]
NoBoot == [pc |-> "none"]
NoSender == [pc |-> "none"]

AuxIdle ==
  /\ fnin = NoFn
  /\ fnout = NoFn
  /\ consumer = NoConsumer
  /\ regs = NoRegs
  /\ boot = NoBoot
  /\ sender = NoSender

\* The driver's variables while a partial model is in use: no page table but
\* the root, zeroed queues, no protocol call
DriverIdle ==
  /\ phase = "none"
  /\ pt = [t \in {PageTableRoot} |-> EmptyPage]
  /\ allocated = 1
  /\ maps = [h \in {} |-> NoInfo]
  /\ cmdq = [i \in 0 .. (CmdQEntries - 1) |-> 0]
  /\ cmdqProd = 0
  /\ cmdqCons = 0
  /\ evtq = [i \in 0 .. (EvtQEntries * SMMUV3_EVENT_QUEUE_ENTRY_SIZE - 1) |-> 0]
  /\ evtqProd = 0
  /\ evtqCons = 0
  /\ nevents = 0
  /\ ncalls = 0
  /\ call = NoCall
  /\ sent = << >>
  /\ rt = NoRt

Init ==
  /\ phase = "config"
  /\ pt = [t \in {PageTableRoot} |-> EmptyPage]
  /\ allocated = 1
  /\ maps = [h \in {} |-> NoInfo]
  /\ cmdq = [i \in 0 .. (CmdQEntries - 1) |-> 0]
  /\ cmdqProd = 0
  /\ cmdqCons = 0
  /\ evtq = [i \in 0 .. (EvtQEntries * SMMUV3_EVENT_QUEUE_ENTRY_SIZE - 1) |-> 0]
  /\ evtqProd = 0
  /\ evtqCons = 0
  /\ nevents = 0
  /\ ncalls = 0
  /\ call = NoCall
  /\ sent = << >>
  /\ rt = NoRt
  /\ AuxIdle

\* What the end of SmmuV3Configure can find after the four commands: SMMU_EN
\* acknowledged in CR0ACK and GERROR zero (EFI_SUCCESS); the poll of CR0ACK
\* for SMMU_EN timed out (EFI_TIMEOUT); SMMU_EN acknowledged and GERROR read
\* non-zero (EFI_DEVICE_ERROR)
EnableOutcomes == {EFI_SUCCESS, EFI_TIMEOUT, EFI_DEVICE_ERROR}

\* SmmuV3Configure from the first SmmuV3SendCommand on: CFGI_ALL,
\* TLBI_NSNH_ALL, TLBI_EL2_ALL, CMD_SYNC, then SMMU_EN; Enable is the status
\* the poll of CR0ACK and the read of GERROR leave.  InitializeSmmuDxe
\* installs the IOMMU protocol only when SmmuV3Configure succeeded.
SmmuV3ConfigureInvalidate(Enable) ==
  /\ phase = "config"
  /\ \E R \in SendCommands(CommandQ,
                <<CmdCfgiSteRange, CmdTlbiNsnhAll, CmdTlbiEl2All, CmdSync>>) :
        /\ cmdq' = R.Mem
        /\ cmdqProd' = R.Prod
        /\ cmdqCons' = R.Cons
        /\ sent' = R.Logs
        /\ phase' = IF R.Status = EFI_SUCCESS /\ Enable = EFI_SUCCESS
                    THEN "ready" ELSE "failed"
        /\ call' = [NoCall EXCEPT !.op = "Configure",
                                  !.status = IF R.Status # EFI_SUCCESS THEN R.Status
                                             ELSE Enable]
  /\ evtqCons' = SmmuV3LogErrors(EventQ, 0)
  /\ UNCHANGED <<pt, allocated, maps, evtq, evtqProd, nevents, ncalls, rt>>
  /\ UNCHANGED aux

\* Variant: the handle records the page address, not the host address
NewMapInfoPageAligned(NumberOfBytes, DeviceAddress, PhysicalAddress) ==
  [NumberOfBytes |-> NumberOfBytes,
   VirtualAddress |-> BitClear(DeviceAddress, PAGE_TABLE_BLOCK_OFFSET),
   PhysicalAddress |-> PhysicalAddress]

\* The IOMMU_MAP_INFO IoMmuMap fills in
NewMapInfo(NumberOfBytes, DeviceAddress, PhysicalAddress) ==
  [NumberOfBytes |-> NumberOfBytes, VirtualAddress |-> DeviceAddress,
   PhysicalAddress |-> PhysicalAddress]

\* IoMmuMap up to and including UpdatePageTable.  MappingPtr: the caller's
\* DeviceAddress and Mapping pointers are not NULL; Avail: the pages
\* AllocatePages can still provide.
MapPageTable(HostAddress, NumberOfBytes, MappingPtr, Avail) ==
  IF HostAddress = 0 \/ NumberOfBytes = 0 \/ ~MappingPtr
  THEN [Mem |-> pt, Used |-> allocated, Status |-> EFI_INVALID_PARAMETER]
  ELSE LET Flags == BitOr(PAGE_TABLE_ACCESS_FLAG, PAGE_TABLE_DESCRIPTOR)
           PhysicalAddress == HostAddress
       IN UpdatePageTable([Mem |-> pt, Used |-> allocated, Limit |-> allocated + Avail],
                          PageTableRoot, PhysicalAddress, NumberOfBytes,
                          Flags, TRUE, FALSE)

\* What AllocateZeroPool (sizeof (IOMMU_MAP_INFO)) and the unchecked writes
\* through its result can do: a handle; NULL and the writes fault; NULL and
\* the writes land at address 0
PoolOutcomes == {"ok", "null_fault", "null_write"}
\* What a read through a NULL pointer does: it faults, or it reads address 0
NullReads == {"null_fault", "null_read"}

\* IoMmuMap after UpdatePageTable returned R: its effect on the handles and
\* its outputs.
MapResult(R, HostAddress, NumberOfBytes, Pool) ==
  LET PhysicalAddress == HostAddress
      DeviceAddress == PhysicalAddress
      MapInfo == IF Pool = "ok" THEN NewHandle ELSE 0
      Info == NewMapInfo(NumberOfBytes, DeviceAddress, PhysicalAddress)
  IN IF EFI_ERROR(R.Status)
     THEN [Mem |-> R.Mem, Used |-> R.Used, Maps |-> maps, Status |-> R.Status,
           Dev |-> 0, Mapping |-> 0, Info |-> NoInfo, Halt |-> FALSE]
     ELSE IF Pool = "null_fault"
     THEN [Mem |-> R.Mem, Used |-> R.Used, Maps |-> maps, Status |-> "none",
           Dev |-> DeviceAddress, Mapping |-> 0, Info |-> NoInfo, Halt |-> TRUE]
     ELSE [Mem |-> R.Mem, Used |-> R.Used,
           Maps |-> IF MapInfo = 0 THEN maps
                    ELSE [h \in DOMAIN maps \cup {MapInfo} |->
                            IF h = MapInfo THEN Info ELSE maps[h]],
           Status |-> R.Status, Dev |-> DeviceAddress, Mapping |-> MapInfo,
           Info |-> Info, Halt |-> FALSE]

IoMmuMap(HostAddress, NumberOfBytes, MappingPtr, Avail) ==
  /\ phase = "ready"
  /\ ncalls < MaxCalls
  /\ Cardinality(DOMAIN maps) < MaxMaps
  /\ ncalls' = ncalls + 1
  /\ \E Result \in {MapPageTable(HostAddress, NumberOfBytes, MappingPtr, Avail)} :
     \E R \in ReadOfStatus(Result) :
     \E M \in {MapResult(R, HostAddress, NumberOfBytes, Pool) : Pool \in PoolOutcomes} :
     \E Status \in {IF M.Halt THEN M.Status
                    ELSE ReturnAfterLogErrors(M.Status, SmmuV3LogErrorsPrints(EventQ, GError)) :
                    GError \in GErrorValues} :
        /\ pt' = M.Mem
        /\ allocated' = M.Used
        /\ maps' = M.Maps
        /\ phase' = IF M.Halt THEN "halted" ELSE phase
        /\ call' = [op |-> "Map", host |-> HostAddress, bytes |-> NumberOfBytes,
                    mptr |-> MappingPtr, mapping |-> M.Mapping, access |-> 0,
                    status |-> Status, dev |-> M.Dev, info |-> M.Info]
        /\ rt' = IF ~EFI_ERROR(call'.status) /\ M.Mapping # 0
                 THEN [st |-> "mapped", h |-> M.Mapping, before |-> pt]
                 ELSE NoRt
        /\ evtqCons' = IF M.Halt THEN evtqCons ELSE SmmuV3LogErrors(EventQ, 0)
  /\ sent' = << >>
  /\ UNCHANGED <<cmdq, cmdqProd, cmdqCons, evtq, evtqProd, nevents>>
  /\ UNCHANGED aux

\* IoMmuUnmap up to and including UpdatePageTable; Mapping = 0 is the NULL
\* handle.
UnmapPageTable(Mapping) ==
  IF Mapping = 0
  THEN [Mem |-> pt, Used |-> allocated, Status |-> EFI_INVALID_PARAMETER]
  ELSE UpdatePageTable([Mem |-> pt, Used |-> allocated, Limit |-> allocated + 5],
                       PageTableRoot, maps[Mapping].PhysicalAddress,
                       maps[Mapping].NumberOfBytes, 0, FALSE, FALSE)

\* IoMmuUnmap after UpdatePageTable returned R and the three commands left
\* the command queue as C (C = CommandQ when none was sent).
UnmapResult(Mapping, R, C) ==
  LET Status == IF EFI_ERROR(R.Status) THEN R.Status ELSE C.Status
  IN [Mem |-> R.Mem, Used |-> R.Used,
      Maps |-> IF ~EFI_ERROR(Status)
               THEN [h \in DOMAIN maps \ {Mapping} |-> maps[h]]
               ELSE maps,
      Q |-> C, Status |-> Status,
      Info |-> IF Mapping = 0 THEN NoInfo ELSE maps[Mapping],
      Updated |-> ~EFI_ERROR(R.Status)]

IoMmuUnmap(Mapping) ==
  /\ phase = "ready"
  /\ ncalls < MaxCalls
  /\ Mapping \in DOMAIN maps \cup {0}
  /\ ncalls' = ncalls + 1
  /\ \E Result \in {UnmapPageTable(Mapping)} :
     \E R \in ReadOfStatus(Result) :
     \E C \in IF ~EFI_ERROR(R.Status)
              THEN SendCommands(CommandQ, <<CmdTlbiNsnhAll, CmdTlbiEl2All, CmdSync>>)
              ELSE {CommandQ} :
     \E U \in {UnmapResult(Mapping, R, C)} :
     \E Status \in {ReturnAfterLogErrors(U.Status, SmmuV3LogErrorsPrints(EventQ, GError)) :
                    GError \in GErrorValues} :
        /\ pt' = U.Mem
        /\ allocated' = U.Used
        /\ maps' = U.Maps
        /\ cmdq' = U.Q.Mem
        /\ cmdqProd' = U.Q.Prod
        /\ cmdqCons' = U.Q.Cons
        /\ sent' = U.Q.Logs
        /\ call' = [NoCall EXCEPT !.op = "Unmap", !.mapping = Mapping,
                                  !.status = Status, !.info = U.Info]
        /\ rt' = IF rt.st = "mapped" /\ rt.h = Mapping /\ U.Updated
                 THEN [rt EXCEPT !.st = "unmapped"]
                 ELSE NoRt
  /\ evtqCons' = SmmuV3LogErrors(EventQ, 0)
  /\ UNCHANGED <<phase, evtq, evtqProd, nevents>>
  /\ UNCHANGED aux

\* Variant: IoMmuAccess is not validated
SetAttributeResultUnchecked(Mapping, IoMmuAccess) ==
  IF Mapping = 0
  THEN [Mem |-> pt, Used |-> allocated, Status |-> EFI_INVALID_PARAMETER,
        Info |-> NoInfo]
  ELSE LET MapInfo == maps[Mapping]
           R == UpdatePageTable([Mem |-> pt, Used |-> allocated,
                                 Limit |-> allocated + 5],
                                PageTableRoot, MapInfo.PhysicalAddress,
                                MapInfo.NumberOfBytes,
                                PAGE_TABLE_READ_WRITE_FROM_IOMMU_ACCESS(IoMmuAccess),
                                FALSE, TRUE)
       IN [Mem |-> R.Mem, Used |-> R.Used, Status |-> R.Status, Info |-> MapInfo]

\* What IoMmuSetAttribute does to the page table.
SetAttributeResult(Mapping, IoMmuAccess) ==
  IF Mapping = 0
     \/ BitClear(IoMmuAccess, BitOr(EDKII_IOMMU_ACCESS_READ, EDKII_IOMMU_ACCESS_WRITE)) # 0
  THEN [Mem |-> pt, Used |-> allocated, Status |-> EFI_INVALID_PARAMETER,
        Info |-> NoInfo]
  ELSE LET MapInfo == maps[Mapping]
           R == UpdatePageTable([Mem |-> pt, Used |-> allocated,
                                 Limit |-> allocated + 5],
                                PageTableRoot, MapInfo.PhysicalAddress,
                                MapInfo.NumberOfBytes,
                                PAGE_TABLE_READ_WRITE_FROM_IOMMU_ACCESS(IoMmuAccess),
                                FALSE, TRUE)
       IN [Mem |-> R.Mem, Used |-> R.Used, Status |-> R.Status, Info |-> MapInfo]

IoMmuSetAttribute(Mapping, IoMmuAccess) ==
  /\ phase = "ready"
  /\ ncalls < MaxCalls
  /\ Mapping \in DOMAIN maps \cup {0}
  /\ ncalls' = ncalls + 1
  /\ \E Result \in {SetAttributeResult(Mapping, IoMmuAccess)} :
     \E R \in ReadOfStatus(Result) :
     \E Status \in {ReturnAfterLogErrors(R.Status, SmmuV3LogErrorsPrints(EventQ, GError)) :
                    GError \in GErrorValues} :
        /\ pt' = R.Mem
        /\ allocated' = R.Used
        /\ call' = [NoCall EXCEPT !.op = "SetAttribute", !.mapping = Mapping,
                                  !.access = IoMmuAccess,
                                  !.status = Status, !.info = R.Info]
  /\ rt' = NoRt
  /\ sent' = << >>
  /\ evtqCons' = SmmuV3LogErrors(EventQ, 0)
  /\ UNCHANGED <<phase, maps, cmdq, cmdqProd, cmdqCons, evtq, evtqProd, nevents>>
  /\ UNCHANGED aux

\* The SMMU consumes one command while the driver is not in SmmuV3SendCommand.
SmmuConsumesCommand ==
  /\ phase \in {"config", "ready"}
  /\ cmdqCons # cmdqProd
  /\ cmdqCons' = SmmuConsumeOne(cmdqCons, cmdqProd)
  /\ UNCHANGED <<phase, pt, allocated, maps, cmdq, cmdqProd, evtq, evtqProd, evtqCons,
                 nevents, ncalls, call, sent, rt>>
  /\ UNCHANGED aux

\* The SMMU writes the 32 bytes of Record into the entry Slot of the event queue
SmmuWritesEvent(Mem, Slot, Record) ==
  [b \in DOMAIN Mem |->
     IF b \div SMMUV3_EVENT_QUEUE_ENTRY_SIZE = Slot
     THEN Record[b % SMMUV3_EVENT_QUEUE_ENTRY_SIZE] ELSE Mem[b]]

\* The SMMU records a fault: it writes the record at its producer slot and
\* advances SMMU_EVENTQ_PROD (index and wrap bit), unless the queue is full.
SmmuPostsEvent(Record) ==
  /\ phase \in {"config", "ready"}
  /\ nevents < MaxEvents
  /\ (evtqProd - evtqCons) % (2 * EvtQEntries) # EvtQEntries
  /\ evtq' = SmmuWritesEvent(evtq, evtqProd % EvtQEntries, Record)
  /\ evtqProd' = (evtqProd + 1) % (2 * EvtQEntries)
  /\ nevents' = nevents + 1
  /\ UNCHANGED <<phase, pt, allocated, maps, cmdq, cmdqProd, cmdqCons, evtqCons,
                 ncalls, call, sent, rt>>
  /\ UNCHANGED aux

Next ==
  \/ \E Enable \in EnableOutcomes : SmmuV3ConfigureInvalidate(Enable)
  \/ \E In \in MapInputs, MappingPtr \in BOOLEAN, Avail \in PagesAvailable :
       IoMmuMap(In[1], In[2], MappingPtr, Avail)
  \/ \E Mapping \in Handles \cup {0} : IoMmuUnmap(Mapping)
  \/ \E Mapping \in Handles \cup {0}, IoMmuAccess \in AccessInputs :
       IoMmuSetAttribute(Mapping, IoMmuAccess)
  \/ SmmuConsumesCommand
  \/ \E Record \in FaultRecords : SmmuPostsEvent(Record)

Spec == Init /\ [][Next]_vars

-----------------------------------------------------------------------------
(* Observers used by the properties: the table as the SMMU's walker sees it *)

\* Index of Address at Level, by division
WalkIndex(Address, Level) ==
  LET Page == Address \div EFI_PAGE_SIZE
  IN IF Level = 3 THEN Page % PAGE_TABLE_SIZE
     ELSE IF Level = 2 THEN (Page \div PAGE_TABLE_SIZE) % PAGE_TABLE_SIZE
     ELSE IF Level = 1 THEN (Page \div (PAGE_TABLE_SIZE * PAGE_TABLE_SIZE)) % PAGE_TABLE_SIZE
     ELSE (Page \div (PAGE_TABLE_SIZE * PAGE_TABLE_SIZE * PAGE_TABLE_SIZE)) % PAGE_TABLE_SIZE

TableOf(Entry) == Entry - (Entry % EFI_PAGE_SIZE)

\* The level-3 entry a walk from the root reaches for Address; 0 if a table
\* on the way is missing
RECURSIVE WalkFrom(_, _, _, _)
WalkFrom(Mem, Table, Level, Address) ==
  LET Entry == ReadEntry(Mem[Table], WalkIndex(Address, Level))
  IN IF Level = 3 THEN Entry
     ELSE IF Entry = 0 THEN 0
     ELSE WalkFrom(Mem, TableOf(Entry), Level + 1, Address)

LeafAt(Mem, Address) == WalkFrom(Mem, PageTableRoot, 0, Address)

\* Bits 47..39 of an input address as the upper part of a UINT64 whose bits
\* 63..48 equal bit 47
UpperIndex(i0) == IF 2 * i0 >= PAGE_TABLE_SIZE THEN i0 - PAGE_TABLE_SIZE ELSE i0

\* Every non-zero level-3 entry, with the input address whose indices select it
Leaves(Mem) ==
  UNION { UNION { UNION { { [va |-> (((UpperIndex(i0) * PAGE_TABLE_SIZE + i1) * PAGE_TABLE_SIZE + i2)
                                       * PAGE_TABLE_SIZE + i3) * EFI_PAGE_SIZE,
                             entry |-> Mem[TableOf(Mem[TableOf(Mem[TableOf(
                                         Mem[PageTableRoot][i0])][i1])][i2])][i3]] :
                            i3 \in DOMAIN Mem[TableOf(Mem[TableOf(Mem[TableOf(
                                         Mem[PageTableRoot][i0])][i1])][i2])] } :
                          i2 \in DOMAIN Mem[TableOf(Mem[TableOf(Mem[PageTableRoot][i0])][i1])] } :
                  i1 \in DOMAIN Mem[TableOf(Mem[PageTableRoot][i0])] } :
          i0 \in DOMAIN Mem[PageTableRoot] }

\* Every non-zero entry of levels 0..2, as <<table, index>>
TableEntries(Mem) == UNION { { <<t, i>> : i \in DOMAIN Mem[t] } : t \in DOMAIN Mem }

IsValid(Entry) == Entry % 2 = 1
HasBit(Entry, Bit) == (Entry \div Bit) % 2 = 1

\* The 4 KiB pages that intersect [Host, Host + Bytes), Bytes > 0
PagesOf(Host, Bytes) ==
  LET First == Host \div EFI_PAGE_SIZE
      Last == (Host + Bytes - 1) \div EFI_PAGE_SIZE
  IN { k * EFI_PAGE_SIZE : k \in First .. Last }

InfoPages(Info) == PagesOf(Info.PhysicalAddress, Info.NumberOfBytes)

\* [Host, Host + Bytes) ends at or beyond 2^64: the end UpdatePageTable
\* computes has wrapped and is not above Host
RangeWraps(Host, Bytes) == ~UInt64Less(Host, ALIGN_VALUE(Host + Bytes, EFI_PAGE_SIZE))

InfoWraps(Info) == RangeWraps(Info.PhysicalAddress, Info.NumberOfBytes)

\* The step just taken was a call of the IOMMU protocol (recorded in call')
ProtocolStep(Op) == ncalls' = ncalls + 1 /\ call'.op = Op

-----------------------------------------------------------------------------
\* C1: identity invariant.  After any sequence of Map, Unmap and SetAttribute
\* calls every level-3 entry with VALID set carries, as its output address,
\* the input address whose four level indices select that entry.
IdentityInvariant ==
  \A l \in Leaves(pt) : IsValid(l.entry) => TableOf(l.entry) = l.va

\* A valid leaf for the page beyond the table boundary, after a Map and two
\* more calls, the last a SetAttribute
IdentityWitness ==
  /\ ncalls = MaxCalls
  /\ call.op = "SetAttribute" /\ call.status = EFI_SUCCESS
  /\ \E l \in Leaves(pt) : IsValid(l.entry) /\ l.va = PageB
  /\ \E l \in Leaves(pt) : IsValid(l.entry) /\ l.va = PageA

\* C2: after Unmap(m) has updated the page table, no leaf of a page in
\* [m.pa, ALIGN_UP(m.pa + m.bytes)) has VALID set.  (The state holds until the
\* next protocol call; a timeout of the commands that follow the update does
\* not undo it.)
UnmapClearsValid ==
  (call.op = "Unmap" /\ call.status \in {EFI_SUCCESS, EFI_TIMEOUT})
    => \A p \in InfoPages(call.info) : ~IsValid(LeafAt(pt, p))

\* Unmap of a two-page mapping returned success and left both leaves in place
UnmapWitness ==
  /\ call.op = "Unmap" /\ call.status = EFI_SUCCESS
  /\ InfoPages(call.info) = {PageA, PageB}
  /\ LeafAt(pt, PageA) # 0 /\ LeafAt(pt, PageB) # 0

\* C3: a successful Map installs, for exactly the 4 KiB pages that intersect
\* [host, host + bytes), a leaf with VALID, ACCESS_FLAG and DESCRIPTOR set and
\* the page address as output address, whether or not host and length are
\* page aligned, and changes the leaf of no other page.  (It does not for
\* the page that ends at 2^64: UpdatePageTable writes no leaf and returns its
\* unassigned status, which can be EFI_SUCCESS.)
MapInstallsStep ==
  (ProtocolStep("Map") /\ call'.status = EFI_SUCCESS)
    => /\ \A p \in PagesOf(call'.host, call'.bytes) :
            /\ IsValid(LeafAt(pt', p))
            /\ HasBit(LeafAt(pt', p), PAGE_TABLE_ACCESS_FLAG)
            /\ HasBit(LeafAt(pt', p), PAGE_TABLE_DESCRIPTOR)
            /\ TableOf(LeafAt(pt', p)) = p
       /\ \A l \in Leaves(pt) \cup Leaves(pt') :
            l.va \notin PagesOf(call'.host, call'.bytes)
              => LeafAt(pt', l.va) = LeafAt(pt, l.va)

MapInstallsExactly == [][MapInstallsStep]_vars

\* C4: every successful Map reports the host address as the device address,
\* the handle it returns records that address as virtual and as physical
\* address together with the byte length, and the two addresses are equal in
\* every live handle.
MapIsIdentity ==
  /\ (call.op = "Map" /\ call.status = EFI_SUCCESS)
       => /\ call.dev = call.host
          /\ call.info = [NumberOfBytes |-> call.bytes, VirtualAddress |-> call.host,
                          PhysicalAddress |-> call.host]
          /\ call.mapping # 0 => /\ call.mapping \in DOMAIN maps
                                 /\ maps[call.mapping] = call.info
  /\ \A h \in DOMAIN maps : maps[h].VirtualAddress = maps[h].PhysicalAddress

\* A successful Map of a host address inside a page returned a handle while
\* another handle is live
MapIsIdentityWitness ==
  /\ call.op = "Map" /\ call.status = EFI_SUCCESS /\ call.host = HostB
  /\ call.mapping # 0
  /\ Cardinality(DOMAIN maps) = 2

\* C5: SetAttribute on a live handle never changes the VALID bit of any
\* entry, never allocates or frees a page-table page, and changes no bit
\* other than bits 6 and 7 of any entry.
SetAttributeStep ==
  (ProtocolStep("SetAttribute") /\ call'.mapping \in DOMAIN maps)
    => /\ allocated' = allocated
       /\ DOMAIN pt' = DOMAIN pt
       /\ \A e \in TableEntries(pt) \cup TableEntries(pt') :
            /\ IsValid(ReadEntry(pt'[e[1]], e[2])) = IsValid(ReadEntry(pt[e[1]], e[2]))
            /\ BitClear(ReadEntry(pt'[e[1]], e[2]), PAGE_TABLE_READ_BIT + PAGE_TABLE_WRITE_BIT)
                 = BitClear(ReadEntry(pt[e[1]], e[2]), PAGE_TABLE_READ_BIT + PAGE_TABLE_WRITE_BIT)

SetAttributeTouchesOnlyReadWrite == [][SetAttributeStep]_vars

\* A SetAttribute that revoked all access from a two-page mapping whose
\* leaves are still valid
SetAttributeOnlyWitness ==
  /\ call.op = "SetAttribute" /\ call.status = EFI_SUCCESS /\ call.access = 0
  /\ call.mapping \in DOMAIN maps
  /\ InfoPages(call.info) = {PageA, PageB}
  /\ IsValid(LeafAt(pt, PageA)) /\ IsValid(LeafAt(pt, PageB))

\* C6: after a successful SetAttribute(m, 0) bits 6 and 7 are clear on every
\* leaf of m's range; after SetAttribute(m, A) with A not empty the bits
\* A << 6 are set on every leaf of the range; in both cases each leaf keeps
\* the VALID bit it had.  (A handle whose range ends at 2^64 has no leaf: no
\* page of its range has an entry, before and after the call.)
SetAttributeLeafStep ==
  (ProtocolStep("SetAttribute") /\ call'.status = EFI_SUCCESS)
    => \A p \in InfoPages(call'.info) :
       IF InfoWraps(call'.info) THEN LeafAt(pt, p) = 0 /\ LeafAt(pt', p) = 0 ELSE
         /\ call'.access = 0
              => /\ ~HasBit(LeafAt(pt', p), PAGE_TABLE_READ_BIT)
                 /\ ~HasBit(LeafAt(pt', p), PAGE_TABLE_WRITE_BIT)
         /\ HasBit(call'.access, EDKII_IOMMU_ACCESS_READ)
              => HasBit(LeafAt(pt', p), PAGE_TABLE_READ_BIT)
         /\ HasBit(call'.access, EDKII_IOMMU_ACCESS_WRITE)
              => HasBit(LeafAt(pt', p), PAGE_TABLE_WRITE_BIT)
         /\ IsValid(LeafAt(pt', p)) = IsValid(LeafAt(pt, p))

SetAttributeSetsLeafBits == [][SetAttributeLeafStep]_vars

\* A SetAttribute that granted read and write to a mapping of the page beyond
\* the table boundary
SetAttributeLeafWitness ==
  /\ call.op = "SetAttribute" /\ call.status = EFI_SUCCESS
  /\ call.access = EDKII_IOMMU_ACCESS_READ + EDKII_IOMMU_ACCESS_WRITE
  /\ PageB \in InfoPages(call.info)
  /\ HasBit(LeafAt(pt, PageB), PAGE_TABLE_READ_BIT)
  /\ HasBit(LeafAt(pt, PageB), PAGE_TABLE_WRITE_BIT)
  /\ IsValid(LeafAt(pt, PageB))

\* C7 as stated: Map(x, N) followed at once by Unmap of the returned handle
\* leaves the page table as it was before the Map, except for table pages the
\* Map allocated, which hold no leaf entry.
RoundTripRestores ==
  rt.st = "unmapped"
    => /\ \A l \in Leaves(pt) \cup Leaves(rt.before) :
            LeafAt(pt, l.va) = LeafAt(rt.before, l.va)
       /\ \A e \in TableEntries(rt.before) :
            ReadEntry(pt[e[1]], e[2]) = rt.before[e[1]][e[2]]

\* C7 as the code has it: Map(x, N) followed at once by Unmap of the returned
\* handle leaves every entry that existed before the Map, and every leaf
\* outside the mapped range, as it was; each leaf of the range holds its page
\* address with ACCESS_FLAG and DESCRIPTOR set and VALID, READ and WRITE
\* clear, and the table pages the Map allocated stay allocated.  (Of a range
\* that ends at 2^64 neither call writes a leaf: its pages have no entry.)
RoundTripLeavesInvalidLeaves ==
  rt.st = "unmapped"
    => /\ \A p \in InfoPages(call.info) :
            LeafAt(pt, p) = IF InfoWraps(call.info) THEN 0
                            ELSE p + PAGE_TABLE_ACCESS_FLAG + PAGE_TABLE_DESCRIPTOR
       /\ \A l \in Leaves(pt) \cup Leaves(rt.before) :
            l.va \notin InfoPages(call.info)
              => LeafAt(pt, l.va) = LeafAt(rt.before, l.va)
       /\ \A e \in TableEntries(rt.before) :
            (\A p \in InfoPages(call.info) : LeafAt(rt.before, p) # rt.before[e[1]][e[2]])
              => ReadEntry(pt[e[1]], e[2]) = rt.before[e[1]][e[2]]
       /\ DOMAIN rt.before \subseteq DOMAIN pt

\* Unmap directly after the Map of a two-page range that another, still live,
\* mapping had covered before
RoundTripWitness ==
  /\ rt.st = "unmapped" /\ call.op = "Unmap" /\ call.status = EFI_SUCCESS
  /\ InfoPages(call.info) = {PageA, PageB}
  /\ LeafAt(rt.before, PageA) # 0
  /\ Cardinality(DOMAIN maps) = 1

\* C8: a call rejected for its parameters (Map with a null host address, a
\* zero length or a null output pointer; Unmap with a null handle;
\* SetAttribute with a null handle or access bits outside READ|WRITE)
\* returns EFI_INVALID_PARAMETER, writes no page-table entry, allocates no
\* page and pushes no command: SMMU_CMDQ_PROD is unchanged.
RejectedCall ==
  \/ ProtocolStep("Map") /\ (call'.host = 0 \/ call'.bytes = 0 \/ ~call'.mptr)
  \/ ProtocolStep("Unmap") /\ call'.mapping = 0
  \/ ProtocolStep("SetAttribute") /\ (call'.mapping = 0 \/ call'.access \notin 0 .. 3)

RejectionStep ==
  RejectedCall
    => /\ call'.status = EFI_INVALID_PARAMETER
       /\ pt' = pt
       /\ allocated' = allocated
       /\ maps' = maps
       /\ cmdq' = cmdq
       /\ cmdqProd' = cmdqProd

RejectionChangesNothing == [][RejectionStep]_vars

\* SetAttribute with an access bit outside READ|WRITE on a live handle was
\* rejected
RejectionWitness ==
  /\ call.op = "SetAttribute" /\ call.status = EFI_INVALID_PARAMETER
  /\ call.access = 4 /\ call.mapping \in DOMAIN maps
  /\ IsValid(LeafAt(pt, PageA))

\* C9 as stated: whenever SmmuV3SendCommand returns success, SMMU_CMDQ_CONS
\* as the call last read it equals the SMMU_CMDQ_PROD value the call wrote.
SendCommandDrained ==
  \A i \in DOMAIN sent :
    sent[i].Status = EFI_SUCCESS => sent[i].ConsRet = sent[i].NewProd

\* C10 as stated: a SmmuV3SendCommand that finds the queue not full writes
\* SMMU_CMDQ_PROD = (p + 1) mod 2N, p being the index with its wrap bit that
\* the call read and N the number of entries.
ProducerAdvancesModulo2N ==
  \A i \in DOMAIN sent :
    sent[i].Wrote => sent[i].NewProd = (sent[i].Prod + 1) % (2 * CmdQEntries)

-----------------------------------------------------------------------------
(* Command queue back-pressure *)

\* The command queue holds N entries the SMMU has not consumed
CmdQIsFull(Prod, Cons) == (Prod - Cons) % (2 * CmdQEntries) = CmdQEntries

\* An IoMmuUnmap whose first SmmuV3SendCommand finds the command queue full
\* and returns with SMMU_CMDQ_CONS where it was
FullQueueStep ==
  /\ ProtocolStep("Unmap")
  /\ CmdQIsFull(cmdqProd, cmdqCons)
  /\ sent' # << >>
  /\ sent'[1].ConsRet = cmdqCons

FullQueueTimesOut ==
  FullQueueStep =>
    /\ sent'[1].Status = EFI_TIMEOUT
    /\ ~sent'[1].Wrote
    /\ call'.status = EFI_TIMEOUT
    /\ cmdq' = cmdq
    /\ cmdqProd' = cmdqProd

\* C11: when the command queue is full as SmmuV3SendCommand is called and
\* SMMU_CMDQ_CONS does not advance while it polls, the call returns
\* EFI_TIMEOUT, writes no slot of the queue and does not write SMMU_CMDQ_PROD.
FullQueueBackPressure == [][FullQueueTimesOut]_vars

\* An IoMmuUnmap found the queue full, timed out and left it full
FullQueueWitness ==
  /\ call.op = "Unmap" /\ call.status = EFI_TIMEOUT
  /\ Len(sent) = 1 /\ ~sent[1].Wrote
  /\ sent[1].ConsRet = cmdqCons
  /\ CmdQIsFull(cmdqProd, cmdqCons)

-----------------------------------------------------------------------------
(* The queue predicates on their own: SMMUV3_IS_QUEUE_EMPTY and             *)
(* SMMUV3_IS_QUEUE_FULL applied to every pair of producer and consumer      *)
(* register values of a queue of 2^Log2Size entries, split into index and   *)
(* wrap bit as SmmuV3SendCommand and SmmuV3ConsumeEventQueueForErrors do.   *)

QueueInputs ==
  UNION { { [fn |-> "queue", Log2Size |-> l, Prod |-> p, Cons |-> c] :
              p \in 0 .. (2 * SMMUV3_COUNT_FROM_LOG2(l) - 1),
              c \in 0 .. (2 * SMMUV3_COUNT_FROM_LOG2(l) - 1) } : l \in 1 .. MaxQueueLog2 }

InitQueue ==
  /\ DriverIdle
  /\ sender = NoSender
  /\ fnin \in QueueInputs
  /\ fnout = NoFn
  /\ consumer = NoConsumer
  /\ regs = NoRegs
  /\ boot = NoBoot

\* The two predicates as the driver evaluates them on the register values
QueueState(Log2Size, Prod, Cons) ==
  LET TotalQueueEntries == SMMUV3_COUNT_FROM_LOG2(Log2Size)
      WrapMask == TotalQueueEntries
      QueueMask == TotalQueueEntries - 1
      ProducerIndex == BitAnd(Prod, QueueMask)
      ProducerWrap == BitAnd(Prod, WrapMask)
      ConsumerIndex == BitAnd(Cons, QueueMask)
      ConsumerWrap == BitAnd(Cons, WrapMask)
  IN [fn |-> "queue",
      Empty |-> SMMUV3_IS_QUEUE_EMPTY(ProducerIndex, ProducerWrap, ConsumerIndex, ConsumerWrap),
      Full |-> SMMUV3_IS_QUEUE_FULL(ProducerIndex, ProducerWrap, ConsumerIndex, ConsumerWrap)]

EvaluateQueueState ==
  /\ fnin.fn = "queue"
  /\ fnout = NoFn
  /\ fnout' = QueueState(fnin.Log2Size, fnin.Prod, fnin.Cons)
  /\ UNCHANGED <<fnin, consumer, regs, boot, sender>>
  /\ UNCHANGED driver

NextQueue == EvaluateQueueState

SpecQueue == InitQueue /\ [][NextQueue]_vars

\* C12: for every pair p, c of (Log2Size + 1)-bit indices of a queue of
\* N = 2^Log2Size entries, the queue is found empty iff (p - c) mod 2N = 0
\* and full iff (p - c) mod 2N = N, and never both.
QueuePredicatesAreDistances ==
  fnout # NoFn =>
    LET N == SMMUV3_COUNT_FROM_LOG2(fnin.Log2Size)
        Distance == (fnin.Prod - fnin.Cons) % (2 * N)
    IN /\ fnout.Empty <=> (Distance = 0)
       /\ fnout.Full <=> (Distance = N)
       /\ ~(fnout.Empty /\ fnout.Full)

\* A queue of 8 entries found full with the consumer ahead of the producer
QueuePredicatesWitness ==
  /\ fnout # NoFn /\ fnout.Full /\ ~fnout.Empty
  /\ fnin.Log2Size = MaxQueueLog2 /\ fnin.Prod = 1
  /\ fnin.Cons = 1 + SMMUV3_COUNT_FROM_LOG2(MaxQueueLog2)

-----------------------------------------------------------------------------
(* The event queue on its own: SmmuV3ConsumeEventQueueForErrors called with *)
(* a caller's buffer while the SMMU posts events.  The call reads           *)
(* SMMU_EVENTQ_PROD and SMMU_EVENTQ_CONS first; the SMMU may post further   *)
(* events before the call copies the entry and writes SMMU_EVENTQ_CONS.     *)

ZeroRecord == [i \in 0 .. (SMMUV3_EVENT_QUEUE_ENTRY_SIZE - 1) |-> 0]

\* What the caller's FaultRecord buffer holds on entry: zeroes, or whatever
\* the stack held (SmmuV3LogErrors passes an uninitialised local)
CallerBuffers == {ZeroRecord, [i \in 0 .. (SMMUV3_EVENT_QUEUE_ENTRY_SIZE - 1) |-> 170]}

\* C_BAD_STREAMID of stream 3 and F_TRANSLATION of stream 1
PostedFaults == {FaultRecord(2, 3), FaultRecord(16, 1)}

IdleConsumer ==
  [pc |-> "idle", n |-> 0, prod |-> 0, cons |-> 0, in |-> ZeroRecord, buf |-> ZeroRecord,
   isEmpty |-> TRUE, status |-> "none", wrote |-> FALSE]

InitEvtQ ==
  /\ DriverIdle
  /\ sender = NoSender
  /\ fnin = NoFn
  /\ fnout = NoFn
  /\ consumer = IdleConsumer
  /\ regs = NoRegs
  /\ boot = NoBoot

\* Entry of SmmuV3ConsumeEventQueueForErrors up to the two register reads
ConsumeEventQueueReads(Buffer) ==
  /\ consumer.pc = "idle"
  /\ consumer.n < MaxDequeues
  /\ consumer' = [consumer EXCEPT !.pc = "called", !.n = @ + 1, !.prod = evtqProd,
                                  !.cons = evtqCons, !.in = Buffer, !.buf = Buffer]
  /\ UNCHANGED <<fnin, fnout, regs, boot, sender>>
  /\ UNCHANGED driver

\* The rest of SmmuV3ConsumeEventQueueForErrors, on the values it read
ConsumeEventQueueReturns ==
  /\ consumer.pc = "called"
  /\ \E R \in {SmmuV3ConsumeEventQueueForErrors(
                 [Mem |-> evtq, Prod |-> consumer.prod, Cons |-> consumer.cons],
                 consumer.in)} :
        /\ consumer' = [consumer EXCEPT !.pc = "idle", !.buf = R.FaultRecord,
                                        !.isEmpty = R.IsEmpty, !.status = R.Status,
                                        !.wrote = R.WroteCons]
        /\ evtqCons' = IF R.WroteCons THEN R.Cons ELSE evtqCons
  /\ UNCHANGED <<phase, pt, allocated, maps, cmdq, cmdqProd, cmdqCons, evtq, evtqProd,
                 nevents, ncalls, call, sent, rt>>
  /\ UNCHANGED <<fnin, fnout, regs, boot, sender>>

\* The SMMU posts an event at its producer slot unless the queue is full
SmmuPostsFault(Record) ==
  /\ nevents < MaxFaults
  /\ (evtqProd - evtqCons) % (2 * EvtQEntries) # EvtQEntries
  /\ evtq' = SmmuWritesEvent(evtq, evtqProd % EvtQEntries, Record)
  /\ evtqProd' = (evtqProd + 1) % (2 * EvtQEntries)
  /\ nevents' = nevents + 1
  /\ UNCHANGED <<phase, pt, allocated, maps, cmdq, cmdqProd, cmdqCons, evtqCons,
                 ncalls, call, sent, rt>>
  /\ UNCHANGED aux

NextEvtQ ==
  \/ \E Buffer \in CallerBuffers : ConsumeEventQueueReads(Buffer)
  \/ ConsumeEventQueueReturns
  \/ \E Record \in PostedFaults : SmmuPostsFault(Record)

SpecEvtQ == InitEvtQ /\ [][NextEvtQ]_vars

\* SmmuV3ConsumeEventQueueForErrors returns in this step
DequeueReturns == consumer.pc = "called" /\ consumer'.pc = "idle"

\* The queue as the returning call read it
DequeueReadEmpty == consumer.prod = consumer.cons

\* The entry at ring slot Slot: the 32 bytes at byte offset 32 * Slot
EntryAtSlot(Mem, Slot) ==
  [i \in 0 .. (SMMUV3_EVENT_QUEUE_ENTRY_SIZE - 1) |->
     Mem[SMMUV3_EVENT_QUEUE_ENTRY_SIZE * Slot + i]]

\* C13 as stated: when the event queue is empty the call returns success with
\* empty = TRUE, zeroes the caller's fault record and does not write
\* SMMU_EVENTQ_CONS.
EmptyDequeueZeroesRecord ==
  (consumer.pc = "idle" /\ consumer.n > 0 /\ consumer.isEmpty) =>
    /\ consumer.status = EFI_SUCCESS
    /\ ~consumer.wrote
    /\ consumer.buf = ZeroRecord

\* C14 as stated: when the event queue is not empty the call returns empty =
\* FALSE and a record equal to the 32-byte entry at ring slot slot_c, for every
\* consumer slot 0 .. N-1.
DequeueReturnsSlotEntryStep ==
  (DequeueReturns /\ ~DequeueReadEmpty) =>
    /\ ~consumer'.isEmpty
    /\ consumer'.buf = EntryAtSlot(evtq, consumer.cons % EvtQEntries)

DequeueReturnsSlotEntry == [][DequeueReturnsSlotEntryStep]_vars

ConsumerAdvancesStep ==
  DequeueReturns =>
    IF DequeueReadEmpty
    THEN evtqCons' = evtqCons /\ ~consumer'.wrote
    ELSE /\ consumer'.wrote
         /\ evtqCons' = (evtqCons + 1) % (2 * EvtQEntries)
         /\ (evtqCons' \div EvtQEntries # evtqCons \div EvtQEntries)
              <=> (evtqCons' % EvtQEntries = 0)

\* Entries posted and not yet consumed: between 0 and N
ConsumerBehindProducer == (evtqProd - evtqCons) % (2 * EvtQEntries) <= EvtQEntries

\* C15: each non-empty dequeue writes SMMU_EVENTQ_CONS = (old CONS + 1) mod 2N,
\* the wrap bit flipped exactly when the slot returns to 0; an empty dequeue
\* writes nothing; the consumer never overtakes the producer while the SMMU
\* posts events concurrently.
ConsumerProgress == [][ConsumerAdvancesStep /\ ConsumerBehindProducer']_vars

\* A dequeue that wrapped the consumer index back to slot 0 after the SMMU
\* posted an event between the call's register reads and its return
ConsumerProgressWitness ==
  /\ consumer.pc = "idle" /\ consumer.wrote
  /\ consumer.cons = EvtQEntries - 1
  /\ evtqCons = EvtQEntries
  /\ consumer.prod # evtqProd

-----------------------------------------------------------------------------
(* Bring-up and teardown: InitializeSmmuDxe, SmmuV3Configure, SmmuDeInit    *)
(* and the exit-boot hook.  A 32-bit register is the set of the positions   *)
(* of its bits that are 1, so that | is \cup, & is \cap and & ~ is \.       *)

SMMUV3_CR0_SMMU_EN_MASK == {0}
SMMUV3_CR0_SMMU_CMDQ_EVTQ_PRIQ_EN_MASK == {0, 1, 2, 3}
SMMUV3_CR0_VALID_MASK == {0, 1, 2, 3, 4, 6}
SMMU_GBPA_ABORT == {20}
SMMU_GBPA_UPDATE == {31}

\* The EventQEn and CmdQEn bit-fields of SMMUV3_CR0 (0xC in the poll of CR0ACK)
Cr0EventQEn == {2}
Cr0CmdQEn == {3}

\* The Vmw bit-field of SMMUV3_CR0: three bits from bit 6
Cr0Vmw == {6, 7, 8}

\* One line of the trace of register accesses and commands
LogEntry(Op, Reg, Val, St) == [op |-> Op, reg |-> Reg, val |-> Val, st |-> St]

\* Variant: the loop counts down after the test (while (Count-- > 0))
RECURSIVE SmmuV3PollLoopPostDecrement(_, _, _, _, _)
SmmuV3PollLoopPostDecrement(Count, Reads, Values, Mask, Value) ==
  LET RegVal == Values[Reads + 1]
  IN IF (RegVal \cap Mask) = Value
     THEN [Status |-> EFI_SUCCESS, Reads |-> Reads + 1, RegVal |-> RegVal]
     ELSE IF Count > 0
          THEN SmmuV3PollLoopPostDecrement(Count - 1, Reads + 1, Values, Mask, Value)
          ELSE [Status |-> EFI_TIMEOUT, Reads |-> Reads + 1, RegVal |-> RegVal]

\* The do / while loop of SmmuV3Poll with Count iterations left after Reads
\* reads; Values[i] is what the i-th read of the register returns.  The
\* result is the status, the number of reads and the last value read.
RECURSIVE SmmuV3PollLoop(_, _, _, _, _)
SmmuV3PollLoop(Count, Reads, Values, Mask, Value) ==
  LET RegVal == Values[Reads + 1]
  IN IF (RegVal \cap Mask) = Value
     THEN [Status |-> EFI_SUCCESS, Reads |-> Reads + 1, RegVal |-> RegVal]
     ELSE IF Count - 1 > 0
          THEN SmmuV3PollLoop(Count - 1, Reads + 1, Values, Mask, Value)
          ELSE [Status |-> EFI_TIMEOUT, Reads |-> Reads + 1, RegVal |-> RegVal]

\* SmmuV3Poll on the register at SmmuBase whose successive reads return Values
SmmuV3PollRegister(SmmuBase, Values, Mask, Value) ==
  IF SmmuBase = 0
  THEN [Status |-> EFI_INVALID_PARAMETER, Reads |-> 0, RegVal |-> {}]
  ELSE SmmuV3PollLoop(PollCount, 0, Values, Mask, Value)

\* SmmuV3Poll of a register that holds Reg and that the hardware turns into
\* Acked before the read number Lat + 1 (the base is not 0: SmmuInit).  The
\* result is the status and the register as the last read found it.
SmmuV3Poll(Reg, Acked, Mask, Value, Lat) ==
  LET P == SmmuV3PollRegister(1, [i \in 1 .. (PollCount + 1) |-> IF i > Lat THEN Acked ELSE Reg], Mask, Value)
  IN [Status |-> P.Status, Reg |-> P.RegVal]

\* B = [regs, log]; the results add Status.  Lat, Lats: the hardware's
\* latency at each poll of the call, in order.
SmmuV3DisableTranslation(B, Lat) ==
  LET Cr0 == B.regs.CR0
      Cleared == Cr0 \ SMMUV3_CR0_SMMU_CMDQ_EVTQ_PRIQ_EN_MASK
      P == SmmuV3Poll(B.regs.CR0ACK, Cleared, SMMUV3_CR0_SMMU_CMDQ_EVTQ_PRIQ_EN_MASK, {}, Lat)
  IN IF (Cr0 \cap SMMUV3_CR0_SMMU_CMDQ_EVTQ_PRIQ_EN_MASK) # {}
     THEN [regs |-> [B.regs EXCEPT !.CR0 = Cleared, !.CR0ACK = P.Reg],
           log |-> B.log \o <<LogEntry("write", "CR0", Cleared, EFI_SUCCESS),
                              LogEntry("poll", "CR0ACK", P.Reg, P.Status)>>,
           Status |-> P.Status]
     ELSE [regs |-> B.regs, log |-> B.log, Status |-> EFI_SUCCESS]

\* Variant: the update is requested without the ABORT bit
SmmuV3GlobalAbortNoAbort(B, Lats) ==
  LET P1 == SmmuV3Poll(B.regs.GBPA, B.regs.GBPA \ SMMU_GBPA_UPDATE, SMMU_GBPA_UPDATE, {}, Lats[1])
      Log1 == Append(B.log, LogEntry("poll", "GBPA", P1.Reg, P1.Status))
      RegVal == P1.Reg \cup SMMU_GBPA_UPDATE
      P2 == SmmuV3Poll(RegVal, RegVal \ SMMU_GBPA_UPDATE, SMMU_GBPA_UPDATE, {}, Lats[2])
      Log2 == Log1 \o <<LogEntry("write", "GBPA", RegVal, EFI_SUCCESS),
                        LogEntry("poll", "GBPA", P2.Reg, P2.Status)>>
  IN IF P1.Status # EFI_SUCCESS
     THEN [regs |-> [B.regs EXCEPT !.GBPA = P1.Reg], log |-> Log1, Status |-> P1.Status]
     ELSE [regs |-> [B.regs EXCEPT !.GBPA = P2.Reg], log |-> Log2, Status |-> P2.Status]

SmmuV3GlobalAbort(B, Lats) ==
  LET P1 == SmmuV3Poll(B.regs.GBPA, B.regs.GBPA \ SMMU_GBPA_UPDATE, SMMU_GBPA_UPDATE, {}, Lats[1])
      Log1 == Append(B.log, LogEntry("poll", "GBPA", P1.Reg, P1.Status))
      RegVal == P1.Reg \cup (SMMU_GBPA_ABORT \cup SMMU_GBPA_UPDATE)
      P2 == SmmuV3Poll(RegVal, RegVal \ SMMU_GBPA_UPDATE, SMMU_GBPA_UPDATE, {}, Lats[2])
      Log2 == Log1 \o <<LogEntry("write", "GBPA", RegVal, EFI_SUCCESS),
                        LogEntry("poll", "GBPA", P2.Reg, P2.Status)>>
      P3 == SmmuV3Poll(P2.Reg, P2.Reg, SMMU_GBPA_ABORT, SMMU_GBPA_ABORT, Lats[3])
      Log3 == Append(Log2, LogEntry("poll", "GBPA", P3.Reg, P3.Status))
  IN IF P1.Status # EFI_SUCCESS
     THEN [regs |-> [B.regs EXCEPT !.GBPA = P1.Reg], log |-> Log1, Status |-> P1.Status]
     ELSE IF P2.Status # EFI_SUCCESS
     THEN [regs |-> [B.regs EXCEPT !.GBPA = P2.Reg], log |-> Log2, Status |-> P2.Status]
     ELSE [regs |-> [B.regs EXCEPT !.GBPA = P3.Reg], log |-> Log3, Status |-> P3.Status]

\* Variant: the update is requested with the other bits of GBPA cleared
SmmuV3SetGlobalBypassClearAll(B, Lats) ==
  LET P1 == SmmuV3Poll(B.regs.GBPA, B.regs.GBPA \ SMMU_GBPA_UPDATE, SMMU_GBPA_UPDATE, {}, Lats[1])
      Log1 == Append(B.log, LogEntry("poll", "GBPA", P1.Reg, P1.Status))
      RegVal == SMMU_GBPA_UPDATE
      P2 == SmmuV3Poll(RegVal, RegVal \ SMMU_GBPA_UPDATE, SMMU_GBPA_UPDATE, {}, Lats[2])
      Log2 == Log1 \o <<LogEntry("write", "GBPA", RegVal, EFI_SUCCESS),
                        LogEntry("poll", "GBPA", P2.Reg, P2.Status)>>
  IN IF P1.Status # EFI_SUCCESS
     THEN [regs |-> [B.regs EXCEPT !.GBPA = P1.Reg], log |-> Log1, Status |-> P1.Status]
     ELSE [regs |-> [B.regs EXCEPT !.GBPA = P2.Reg], log |-> Log2, Status |-> P2.Status]

SmmuV3SetGlobalBypass(B, Lats) ==
  LET P1 == SmmuV3Poll(B.regs.GBPA, B.regs.GBPA \ SMMU_GBPA_UPDATE, SMMU_GBPA_UPDATE, {}, Lats[1])
      Log1 == Append(B.log, LogEntry("poll", "GBPA", P1.Reg, P1.Status))
      RegVal == (P1.Reg \ SMMU_GBPA_ABORT) \cup SMMU_GBPA_UPDATE
      P2 == SmmuV3Poll(RegVal, RegVal \ SMMU_GBPA_UPDATE, SMMU_GBPA_UPDATE, {}, Lats[2])
      Log2 == Log1 \o <<LogEntry("write", "GBPA", RegVal, EFI_SUCCESS),
                        LogEntry("poll", "GBPA", P2.Reg, P2.Status)>>
  IN IF P1.Status # EFI_SUCCESS
     THEN [regs |-> [B.regs EXCEPT !.GBPA = P1.Reg], log |-> Log1, Status |-> P1.Status]
     ELSE [regs |-> [B.regs EXCEPT !.GBPA = P2.Reg], log |-> Log2, Status |-> P2.Status]

\* SMMU_CR0 / SMMU_CR0ACK and SMMU_GBPA as InitializeSmmuDxe may find them:
\* everything disabled, the queues left enabled by an earlier boot stage, or
\* a bit of VMW left set;
\* GBPA with SHCFG = 1, with or without ABORT, or with an update pending
InitialCr0 == { {}, Cr0EventQEn \cup Cr0CmdQEn, {7} }
InitialGbpa == { {12}, {12} \cup SMMU_GBPA_ABORT, {12} \cup SMMU_GBPA_UPDATE }

\* SMMU_CR2 as found: zero, or E2H and a bit outside SMMUV3_CR2_VALID_MASK set;
\* SMMU_IDR0 without and with BTM
SMMUV3_CR2_VALID_MASK == {0, 1, 2}
SMMUV3_CR2_E2H == 0
SMMUV3_CR2_REC_INV_SID == 1
SMMUV3_CR2_PTM == 1
Cr2E2h == 0
Cr2RecInvSid == 1
Cr2Ptm == 2
Idr0Btm == 5
InitialCr2 == { {}, {Cr2E2h, 31} }
InitialIdr0 == { {}, {Idr0Btm} }

\* Assignment of Value (0 or 1) to the one-bit field Bit of the register Reg
SetField(Reg, Bit, Value) == IF Value = 1 THEN Reg \cup {Bit} ELSE Reg \ {Bit}

\* Variant: PTM is set when IDR0.BTM is 0
Cr2ProgramPtmWithoutBtm(Cr2, Idr0) ==
  LET Masked == Cr2 \ SMMUV3_CR2_VALID_MASK
      WithE2h == SetField(Masked, Cr2E2h, SMMUV3_CR2_E2H)
      WithRec == SetField(WithE2h, Cr2RecInvSid, SMMUV3_CR2_REC_INV_SID)
  IN IF Idr0Btm \notin Idr0 THEN SetField(WithRec, Cr2Ptm, SMMUV3_CR2_PTM) ELSE WithRec

\* The value SmmuV3Configure writes to SMMU_CR2, from the value it read and
\* SMMU_IDR0
Cr2Program(Cr2, Idr0) ==
  LET Masked == Cr2 \ SMMUV3_CR2_VALID_MASK
      WithE2h == SetField(Masked, Cr2E2h, SMMUV3_CR2_E2H)
      WithRec == SetField(WithE2h, Cr2RecInvSid, SMMUV3_CR2_REC_INV_SID)
  IN IF Idr0Btm \in Idr0 THEN SetField(WithRec, Cr2Ptm, SMMUV3_CR2_PTM) ELSE WithRec


\* What InitializeSmmuDxe depends on: the configuration HOB and its version,
\* the ACPI table protocol, CreateEventEx, the SMMU base address,
\* AllocateZeroPool in SmmuInit, AddIortTable.
\* The fields of boot: root, strtab, cmdbuf and evtbuf are the buffers the
\* four allocations of SmmuV3Configure returned; queues is the pair
\* SmmuInfo->CommandQueue, SmmuInfo->EventQueue; nullderef names the
\* allocations through whose NULL result the driver stored.
ConfigVersions == { <<0, 7>>, <<0, 6>>, <<1, 7>> }
EntryInputs ==
  [Hob : BOOLEAN, Version : ConfigVersions, Acpi : BOOLEAN, Event : BOOLEAN,
   SmmuBase : {0, 1}, Pool : PoolOutcomes, Iort : {EFI_SUCCESS, EFI_OUT_OF_RESOURCES}]

FreshBoot ==
  [pc |-> "entry", status |-> "none", mSmmu |-> FALSE, info |-> "null",
   event |-> "none", hook |-> "none", iort |-> FALSE, installed |-> FALSE,
   root |-> "null", strtab |-> "null", queues |-> "null", deinit |-> FALSE,
   cmdbuf |-> "null", evtbuf |-> "null", nullderef |-> {},
   log |-> << >>,
   in |-> [Hob |-> FALSE, Version |-> <<0, 0>>, Acpi |-> FALSE, Event |-> FALSE,
           SmmuBase |-> 0, Pool |-> "ok", Iort |-> EFI_SUCCESS]]

\* SMMU_EVENTQ_PROD as InitializeSmmuDxe may find it (SMMU_EVENTQ_CONS 0): an
\* earlier boot stage may have left a record in its event queue
InitialEventQProd == {0, 1}

InitBoot ==
  /\ phase = "none"
  /\ pt = [t \in {PageTableRoot} |-> EmptyPage]
  /\ allocated = 1
  /\ maps = [h \in {} |-> NoInfo]
  /\ cmdq = [i \in 0 .. (CmdQEntries - 1) |-> 0]
  /\ cmdqProd = 0
  /\ cmdqCons = 0
  /\ evtq = [i \in 0 .. (EvtQEntries * SMMUV3_EVENT_QUEUE_ENTRY_SIZE - 1) |-> 0]
  /\ evtqProd \in InitialEventQProd
  /\ evtqCons = 0
  /\ nevents = 0
  /\ ncalls = 0
  /\ call = NoCall
  /\ sent = << >>
  /\ rt = NoRt
  /\ sender = NoSender
  /\ fnin = NoFn
  /\ fnout = NoFn
  /\ consumer = NoConsumer
  /\ \E c \in InitialCr0, g \in InitialGbpa, c2 \in InitialCr2, i0 \in InitialIdr0 :
       regs = [CR0 |-> c, CR0ACK |-> c, GBPA |-> g, GERROR |-> {}, CR2 |-> c2, IDR0 |-> i0]
  /\ boot = FreshBoot

CheckSmmuConfigVersion(VersionMajor, VersionMinor) ==
  IF (VersionMajor = CURRENT_SMMU_CONFIG_VERSION_MAJOR)
     /\ (VersionMinor = CURRENT_SMMU_CONFIG_VERSION_MINOR)
  THEN EFI_SUCCESS ELSE EFI_INCOMPATIBLE_VERSION

\* Where a return of InitializeSmmuDxe leaves the driver
Returned(B, Status) == [B EXCEPT !.pc = "done", !.status = Status]

\* InitializeSmmuDxe after SmmuInit stored through the NULL result of
\* AllocateZeroPool and the store did not fault: mSmmu is NULL.  The test
\* "mSmmu == NULL" returns EFI_OUT_OF_RESOURCES, or the build, which has seen
\* the pointer dereferenced, has dropped the test: AddIortTable runs, and when
\* it succeeds SmmuV3Configure (NULL) returns EFI_INVALID_PARAMETER; at the
\* Error label SmmuDeInit (NULL) does nothing.
EntryAfterNullStore(B, In) ==
  { Returned(B, EFI_OUT_OF_RESOURCES),
    IF In.Iort # EFI_SUCCESS THEN Returned(B, In.Iort)
    ELSE Returned([B EXCEPT !.iort = TRUE], EFI_INVALID_PARAMETER) }

\* InitializeSmmuDxe up to the call of SmmuV3Configure: the set of its
\* outcomes (more than one only after the store through NULL in SmmuInit)
EntryResult(B, In) ==
  IF ~In.Hob THEN {Returned(B, EFI_NOT_FOUND)}
  ELSE IF CheckSmmuConfigVersion(In.Version[1], In.Version[2]) # EFI_SUCCESS
  THEN {Returned(B, CheckSmmuConfigVersion(In.Version[1], In.Version[2]))}
  ELSE IF ~In.Acpi THEN {Returned(B, EFI_NOT_FOUND)}
  ELSE IF ~In.Event THEN {Returned(B, EFI_OUT_OF_RESOURCES)}
  ELSE IF In.SmmuBase = 0
  THEN {Returned([B EXCEPT !.event = "created"], EFI_OUT_OF_RESOURCES)}
  ELSE IF In.Pool = "null_fault"
  THEN {[B EXCEPT !.event = "created", !.pc = "halted", !.nullderef = @ \cup {"SmmuInfo"}]}
  ELSE IF In.Pool = "null_write"
  THEN EntryAfterNullStore([B EXCEPT !.event = "created", !.nullderef = @ \cup {"SmmuInfo"}], In)
  ELSE IF In.Iort # EFI_SUCCESS
  THEN {[B EXCEPT !.event = "created", !.mSmmu = TRUE, !.info = "allocated",
                  !.pc = "deinit", !.status = In.Iort]}
  ELSE {[B EXCEPT !.event = "created", !.mSmmu = TRUE, !.info = "allocated",
                  !.iort = TRUE, !.pc = "configure"]}

InitializeSmmuDxe(In) ==
  /\ boot.pc = "entry"
  /\ boot' \in EntryResult([boot EXCEPT !.in = In], In)
  /\ UNCHANGED <<fnin, fnout, consumer, regs, sender>>
  /\ UNCHANGED driver

\* SmmuV3DisableInterrupts and SmmuV3EnableInterrupts: the poll of
\* SMMU_IRQ_CTRLACK succeeds or times out
IrqPoll(Ack) == IF Ack THEN EFI_SUCCESS ELSE EFI_TIMEOUT

\* SmmuV3Configure ends: Status is what it will return
ConfigureEnds(B, Log, Status) == [B EXCEPT !.pc = "end", !.status = Status, !.log = Log]

\* SmmuV3Configure: translation and interrupts disabled
ConfigureDisable(Lat, IrqAck) ==
  /\ boot.pc = "configure"
  /\ \E D \in {SmmuV3DisableTranslation([regs |-> regs, log |-> boot.log], Lat)} :
       /\ regs' = D.regs
       /\ boot' = IF D.Status # EFI_SUCCESS THEN ConfigureEnds(boot, D.log, D.Status)
                  ELSE IF IrqPoll(IrqAck) # EFI_SUCCESS
                  THEN ConfigureEnds(boot, Append(D.log, LogEntry("poll", "IRQ_CTRLACK", {}, IrqPoll(IrqAck))),
                                     IrqPoll(IrqAck))
                  ELSE [boot EXCEPT !.pc = "allocate", !.log = D.log]
  /\ UNCHANGED <<fnin, fnout, consumer, sender>>
  /\ UNCHANGED driver

\* SmmuV3Configure: stream table, page table root, stream table entries,
\* command and event queue.  StreamTable: what AllocateAlignedPages and the
\* ZeroMem through its unchecked result do; both queues are allocated before
\* either result is tested, and SmmuInfo takes them only when both are there.
ConfigureAllocate(StreamTable, RootOk, CommandQueueOk, EventQueueOk) ==
  /\ boot.pc = "allocate"
  /\ boot' =
       IF StreamTable = "null_fault"
       THEN [boot EXCEPT !.pc = "halted", !.nullderef = @ \cup {"StreamTable"}]
       ELSE IF StreamTable = "null_write"
       THEN ConfigureEnds([boot EXCEPT !.nullderef = @ \cup {"StreamTable"}],
                          Append(boot.log, LogEntry("alloc", "StreamTable", {}, EFI_OUT_OF_RESOURCES)),
                          EFI_OUT_OF_RESOURCES)
       ELSE IF ~RootOk
       THEN ConfigureEnds([boot EXCEPT !.strtab = "allocated"],
                          Append(boot.log, LogEntry("alloc", "PageTableRoot", {}, EFI_OUT_OF_RESOURCES)),
                          EFI_OUT_OF_RESOURCES)
       ELSE IF ~CommandQueueOk \/ ~EventQueueOk
       THEN ConfigureEnds([boot EXCEPT !.strtab = "allocated", !.root = "allocated",
                                       !.cmdbuf = IF CommandQueueOk THEN "allocated" ELSE "null",
                                       !.evtbuf = IF EventQueueOk THEN "allocated" ELSE "null"],
                          boot.log \o <<LogEntry("fill", "StreamTable", {}, EFI_SUCCESS),
                                        LogEntry("alloc", "Queues", {}, EFI_OUT_OF_RESOURCES)>>,
                          EFI_OUT_OF_RESOURCES)
       ELSE [boot EXCEPT !.strtab = "allocated", !.root = "allocated",
                         !.cmdbuf = "allocated", !.evtbuf = "allocated",
                         !.queues = "allocated", !.pc = "program",
                         !.log = Append(@, LogEntry("fill", "StreamTable", {}, EFI_SUCCESS))]
  /\ UNCHANGED <<fnin, fnout, consumer, regs, sender>>
  /\ UNCHANGED driver

\* SmmuV3Configure: base registers, interrupts, CR1, CR2, then CMDQ_EN and
\* EVENTQ_EN in CR0 and the poll of CR0ACK
ConfigureProgram(IrqAck, Lat) ==
  /\ boot.pc = "program"
  /\ \E Bases \in {boot.log \o <<LogEntry("write", "STRTAB_BASE_CFG", {}, EFI_SUCCESS),
                                 LogEntry("write", "STRTAB_BASE", {}, EFI_SUCCESS),
                                 LogEntry("write", "CMDQ_BASE", {}, EFI_SUCCESS),
                                 LogEntry("write", "EVENTQ_BASE", {}, EFI_SUCCESS)>>} :
     \E Cr0 \in {regs.CR0 \cup Cr0EventQEn \cup Cr0CmdQEn} :
     \E P \in {SmmuV3Poll(regs.CR0ACK, Cr0, Cr0EventQEn \cup Cr0CmdQEn,
                          Cr0EventQEn \cup Cr0CmdQEn, Lat)} :
       IF IrqPoll(IrqAck) # EFI_SUCCESS
       THEN /\ boot' = ConfigureEnds(boot, Append(Bases, LogEntry("poll", "IRQ_CTRLACK", {}, IrqPoll(IrqAck))),
                                     IrqPoll(IrqAck))
            /\ regs' = regs
       ELSE /\ regs' = [regs EXCEPT !.CR0 = Cr0, !.CR0ACK = P.Reg,
                                    !.CR2 = Cr2Program(regs.CR2, regs.IDR0)]
            /\ boot' = [boot EXCEPT !.pc = IF P.Status = EFI_SUCCESS THEN "invalidate" ELSE "end",
                                    !.status = IF P.Status = EFI_SUCCESS THEN @ ELSE P.Status,
                                    !.log = Bases \o <<LogEntry("write", "CR0", Cr0, EFI_SUCCESS),
                                                       LogEntry("poll", "CR0ACK", P.Reg, P.Status)>>]
  /\ cmdqProd' = 0
  /\ cmdqCons' = 0
  /\ evtqProd' = 0
  /\ evtqCons' = 0
  /\ UNCHANGED <<phase, pt, allocated, maps, cmdq, evtq, nevents, ncalls, call, sent, rt>>
  /\ UNCHANGED <<fnin, fnout, consumer, sender>>

\* Variant: the TLB invalidations are sent before the configuration invalidation
ConfigureCommandsTlbiFirst == <<CmdTlbiNsnhAll, CmdTlbiEl2All, CmdCfgiSteRange, CmdSync>>

\* The commands of SmmuV3Configure and the trace lines of those sent
ConfigureCommands == <<CmdCfgiSteRange, CmdTlbiNsnhAll, CmdTlbiEl2All, CmdSync>>
CommandLog(Logs) ==
  [i \in 1 .. Len(Logs) |-> LogEntry("cmd", ConfigureCommands[i], {}, Logs[i].Status)]

\* SmmuV3Configure: CFGI_ALL, TLBI_NSNH_ALL, TLBI_EL2_ALL, CMD_SYNC
ConfigureInvalidate ==
  /\ boot.pc = "invalidate"
  /\ \E R \in SendCommands(CommandQ, ConfigureCommands) :
       /\ cmdq' = R.Mem
       /\ cmdqProd' = R.Prod
       /\ cmdqCons' = R.Cons
       /\ sent' = R.Logs
       /\ boot' = [boot EXCEPT !.pc = IF R.Status = EFI_SUCCESS THEN "enable" ELSE "end",
                               !.status = IF R.Status = EFI_SUCCESS THEN @ ELSE R.Status,
                               !.log = @ \o CommandLog(R.Logs)]
  /\ UNCHANGED <<phase, pt, allocated, maps, evtq, evtqProd, evtqCons, nevents, ncalls, call, rt>>
  /\ UNCHANGED <<fnin, fnout, consumer, regs, sender>>

\* The CR0 value SmmuV3Configure writes to enable the SMMU
Cr0Enable(Cr0, Ats) ==
  (((Cr0 \ SMMUV3_CR0_VALID_MASK) \ Cr0Vmw)
     \cup SMMUV3_CR0_SMMU_EN_MASK \cup Cr0EventQEn \cup Cr0CmdQEn)
    \cup (IF Ats THEN {4} ELSE {})

\* SmmuV3Configure: SMMU_EN in CR0, the poll of CR0ACK, the read of GERROR
ConfigureEnable(Ats, Lat, GError) ==
  /\ boot.pc = "enable"
  /\ \E Cr0 \in {Cr0Enable(regs.CR0, Ats)} :
     \E P \in {SmmuV3Poll(regs.CR0ACK, Cr0, SMMUV3_CR0_SMMU_EN_MASK, SMMUV3_CR0_SMMU_EN_MASK, Lat)} :
       /\ regs' = [regs EXCEPT !.CR0 = Cr0, !.CR0ACK = P.Reg,
                               !.GERROR = IF P.Status = EFI_SUCCESS THEN GError ELSE @]
       /\ boot' = ConfigureEnds(boot,
                    boot.log \o <<LogEntry("write", "CR0", Cr0, EFI_SUCCESS),
                                  LogEntry("poll", "CR0ACK", P.Reg, P.Status)>>
                             \o (IF P.Status = EFI_SUCCESS
                                 THEN <<LogEntry("read", "GERROR", GError, EFI_SUCCESS)>>
                                 ELSE << >>),
                    IF P.Status # EFI_SUCCESS THEN P.Status
                    ELSE IF GError # {} THEN EFI_DEVICE_ERROR ELSE EFI_SUCCESS)
  /\ UNCHANGED <<fnin, fnout, consumer, sender>>
  /\ UNCHANGED driver

\* SmmuV3Configure logs the errors and returns to InitializeSmmuDxe, which
\* installs the IOMMU protocol (IoMmuInit) or goes to its Error label
\* SmmuV3LogErrors reads the event queue registers whether or not the queues
\* exist: before SmmuInfo has them, EventQueueLog2Size is 0 and EventQueue is
\* NULL, and a queue found not empty makes CopyMem read at address 0, which
\* faults (NullRead = "null_fault") or reads what is there.
ConfigureReturns(Install, NullRead) ==
  /\ boot.pc = "end"
  /\ \E C \in {ConsumeEventQueue(EventQ, 0, IF boot.queues = "allocated" THEN EvtQLog2 ELSE 0)} :
     \E ReadsNull \in {boot.queues # "allocated" /\ ~C.IsEmpty} :
     \E B \in {IF ReadsNull THEN [boot EXCEPT !.nullderef = @ \cup {"EventQueue"}] ELSE boot} :
       IF ReadsNull /\ NullRead = "null_fault"
       THEN /\ evtqCons' = evtqCons
            /\ boot' = [B EXCEPT !.pc = "halted"]
       ELSE /\ evtqCons' = C.Cons
            /\ boot' = IF B.status # EFI_SUCCESS THEN [B EXCEPT !.pc = "deinit"]
                       ELSE IF Install # EFI_SUCCESS THEN [B EXCEPT !.pc = "deinit", !.status = Install]
                       ELSE [B EXCEPT !.pc = "done", !.installed = TRUE]
  /\ UNCHANGED <<phase, pt, allocated, maps, cmdq, cmdqProd, cmdqCons, evtq, evtqProd,
                 nevents, ncalls, call, sent, rt>>
  /\ UNCHANGED <<fnin, fnout, consumer, regs, sender>>

\* SmmuDeInit: translation disabled, global abort requested; neither status
\* is acted upon
DeInitDisable(Lats) ==
  /\ boot.pc = "deinit"
  /\ \E D \in {SmmuV3DisableTranslation(
                 [regs |-> regs,
                  log |-> Append(boot.log, LogEntry("call", "SmmuDeInit", regs.GBPA, EFI_SUCCESS))],
                 Lats[1])} :
     \E G \in {SmmuV3GlobalAbort([regs |-> D.regs, log |-> D.log], Tail(Lats))} :
       /\ regs' = G.regs
       /\ boot' = [boot EXCEPT !.pc = "free", !.log = G.log]
  /\ UNCHANGED <<fnin, fnout, consumer, sender>>
  /\ UNCHANGED driver

\* What a free of SmmuDeInit does to a resource
Freed(Resource) == IF Resource = "allocated" THEN "freed" ELSE Resource

\* SmmuDeInit frees everything; InitializeSmmuDxe clears mSmmu and returns
DeInitFree ==
  /\ boot.pc = "free"
  /\ boot' = [boot EXCEPT !.root = Freed(@), !.strtab = Freed(@), !.queues = Freed(@),
                          !.cmdbuf = IF boot.queues = "allocated" THEN Freed(@) ELSE @,
                          !.evtbuf = IF boot.queues = "allocated" THEN Freed(@) ELSE @,
                          !.info = Freed(@), !.mSmmu = FALSE, !.deinit = TRUE,
                          !.pc = "done"]
  /\ UNCHANGED <<fnin, fnout, consumer, regs, sender>>
  /\ UNCHANGED driver

\* The exit-boot hook, signalled once after InitializeSmmuDxe returned, up to
\* its RestoreTPL: with mSmmu NULL it returns at once (the event stays open),
\* otherwise it disables translation and requests global bypass between
\* RaiseTPL and RestoreTPL.  The event is still open when this is done.
SmmuV3ExitBootServices(Lats) ==
  /\ boot.pc = "done"
  /\ boot.event = "created"
  /\ boot.hook = "none"
  /\ IF ~boot.mSmmu
     THEN /\ boot' = [boot EXCEPT !.hook = "null"]
          /\ regs' = regs
     ELSE \E D \in {SmmuV3DisableTranslation(
                       [regs |-> regs,
                        log |-> Append(boot.log, LogEntry("call", "SmmuV3ExitBootServices",
                                                          regs.GBPA, EFI_SUCCESS))],
                       Lats[1])} :
          \E G \in {SmmuV3SetGlobalBypass([regs |-> D.regs, log |-> D.log], Tail(Lats))} :
            /\ regs' = G.regs
            /\ boot' = [boot EXCEPT !.hook = "live", !.log = G.log]
  /\ UNCHANGED <<fnin, fnout, consumer, sender>>
  /\ UNCHANGED driver

\* The last statement of the hook, after RestoreTPL: gBS->CloseEvent (Event).
\* The SMMU may have acted on the registers in between.
ExitBootCloseEvent ==
  /\ boot.pc = "done"
  /\ boot.hook = "live"
  /\ boot.event = "created"
  /\ boot' = [boot EXCEPT !.event = "closed"]
  /\ UNCHANGED <<fnin, fnout, consumer, regs, sender>>
  /\ UNCHANGED driver

\* The SMMU acknowledges CR0 after the driver stopped waiting for it
SmmuAcknowledgesCr0 ==
  /\ regs.CR0ACK # regs.CR0
  /\ regs' = [regs EXCEPT !.CR0ACK = regs.CR0]
  /\ UNCHANGED <<fnin, fnout, consumer, boot, sender>>
  /\ UNCHANGED driver

\* The SMMU completes a GBPA update after the driver stopped waiting for it
SmmuCompletesGbpaUpdate ==
  /\ (regs.GBPA \cap SMMU_GBPA_UPDATE) # {}
  /\ regs' = [regs EXCEPT !.GBPA = @ \ SMMU_GBPA_UPDATE]
  /\ UNCHANGED <<fnin, fnout, consumer, boot, sender>>
  /\ UNCHANGED driver

NextBoot ==
  \/ \E In \in EntryInputs : InitializeSmmuDxe(In)
  \/ \E Lat \in HwLatencies, IrqAck \in BOOLEAN : ConfigureDisable(Lat, IrqAck)
  \/ \E StreamTable \in PoolOutcomes, RootOk \in BOOLEAN,
        CommandQueueOk \in BOOLEAN, EventQueueOk \in BOOLEAN :
       ConfigureAllocate(StreamTable, RootOk, CommandQueueOk, EventQueueOk)
  \/ \E IrqAck \in BOOLEAN, Lat \in HwLatencies : ConfigureProgram(IrqAck, Lat)
  \/ ConfigureInvalidate
  \/ \E Ats \in BOOLEAN, Lat \in HwLatencies, GError \in GErrorValues :
       ConfigureEnable(Ats, Lat, GError)
  \/ \E Install \in {EFI_SUCCESS, EFI_OUT_OF_RESOURCES}, NullRead \in NullReads :
       ConfigureReturns(Install, NullRead)
  \/ \E Lats \in [1 .. 4 -> HwLatencies] : DeInitDisable(Lats)
  \/ DeInitFree
  \/ \E Lats \in [1 .. 3 -> HwLatencies] : SmmuV3ExitBootServices(Lats)
  \/ ExitBootCloseEvent
  \/ SmmuAcknowledgesCr0
  \/ SmmuCompletesGbpaUpdate

SpecBoot == InitBoot /\ [][NextBoot]_vars

-----------------------------------------------------------------------------
(* Properties of bring-up and teardown, read off the trace boot.log *)

\* The trace from the call of Function on (empty if it was not called)
TraceOf(Function) ==
  LET Calls == { i \in DOMAIN boot.log :
                   boot.log[i].op = "call" /\ boot.log[i].reg = Function }
  IN IF Calls = {} THEN << >>
     ELSE SubSeq(boot.log, CHOOSE i \in Calls : TRUE, Len(boot.log))

\* Every poll of the trace T succeeded: the hardware acknowledged in time
Acknowledged(T) == \A i \in DOMAIN T : T[i].st = EFI_SUCCESS

IsWrite(Entry, Reg) == Entry.op = "write" /\ Entry.reg = Reg
IsPoll(Entry, Reg) == Entry.op = "poll" /\ Entry.reg = Reg

\* Trace lines that write CR0 with SMMU_EN set
SmmuEnWrites ==
  { i \in DOMAIN boot.log :
      IsWrite(boot.log[i], "CR0") /\ SMMUV3_CR0_SMMU_EN_MASK \subseteq boot.log[i].val }

\* SMMU_EN was acknowledged in CR0ACK and GERROR then read as zero
EnabledCleanly ==
  /\ \E i \in DOMAIN boot.log :
       /\ IsPoll(boot.log[i], "CR0ACK") /\ boot.log[i].st = EFI_SUCCESS
       /\ SMMUV3_CR0_SMMU_EN_MASK \subseteq boot.log[i].val
  /\ \E i \in DOMAIN boot.log :
       boot.log[i].op = "read" /\ boot.log[i].reg = "GERROR" /\ boot.log[i].val = {}

\* C16 as stated: the IOMMU protocol is installed only when the whole
\* bring-up succeeded (configuration found with exactly the driver's major and
\* minor version, IORT installed, SMMU_EN acknowledged in CR0ACK, GERROR zero
\* after enable); in every failing run InitializeSmmuDxe returns the error
\* (not found, incompatible version, out of resources, timeout, device
\* error), the protocol is not installed and mSmmu is NULL.
ProtocolOnlyAfterBringUp ==
  /\ boot.installed =>
       /\ boot.pc = "done" /\ boot.status = EFI_SUCCESS /\ boot.mSmmu
       /\ boot.in.Hob
       /\ boot.in.Version = <<CURRENT_SMMU_CONFIG_VERSION_MAJOR, CURRENT_SMMU_CONFIG_VERSION_MINOR>>
       /\ boot.iort
       /\ EnabledCleanly
  /\ (boot.pc = "done" /\ boot.status # EFI_SUCCESS) =>
       /\ ~boot.installed /\ ~boot.mSmmu
       /\ boot.status \in {EFI_NOT_FOUND, EFI_INCOMPATIBLE_VERSION, EFI_OUT_OF_RESOURCES,
                           EFI_TIMEOUT, EFI_DEVICE_ERROR}
       /\ ~boot.in.Hob => boot.status = EFI_NOT_FOUND
       /\ (boot.in.Hob /\ boot.in.Version # <<CURRENT_SMMU_CONFIG_VERSION_MAJOR,
                                              CURRENT_SMMU_CONFIG_VERSION_MINOR>>)
            => boot.status = EFI_INCOMPATIBLE_VERSION
       /\ boot.status = EFI_TIMEOUT =>
            \E i \in DOMAIN boot.log : boot.log[i].st = EFI_TIMEOUT
       /\ boot.status = EFI_DEVICE_ERROR <=>
            \E i \in DOMAIN boot.log :
              boot.log[i].op = "read" /\ boot.log[i].reg = "GERROR" /\ boot.log[i].val # {}
  /\ boot.pc = "done" => (boot.installed <=> boot.status = EFI_SUCCESS)

\* C17: SMMU_EN is written to CR0 only after the stream table was filled and
\* STRTAB_BASE, CMDQ_BASE and EVENTQ_BASE were programmed, CMDQ_EN and
\* EVENTQ_EN were acknowledged in CR0ACK, and CFGI_ALL, TLBI_NSNH_ALL,
\* TLBI_EL2_ALL and CMD_SYNC were submitted in that order, each with success;
\* after any failing step SMMU_EN is never written.
SmmuEnWrittenLast ==
  \A i \in SmmuEnWrites :
    LET Before == SubSeq(boot.log, 1, i - 1)
        Done(Op, Reg) == \E j \in DOMAIN Before : Before[j].op = Op /\ Before[j].reg = Reg
        IsCmd(Entry) == Entry.op = "cmd"
    IN /\ Done("fill", "StreamTable")
       /\ Done("write", "STRTAB_BASE") /\ Done("write", "CMDQ_BASE")
       /\ Done("write", "EVENTQ_BASE")
       /\ \E j \in DOMAIN Before :
            /\ IsPoll(Before[j], "CR0ACK") /\ Before[j].st = EFI_SUCCESS
            /\ (Cr0EventQEn \cup Cr0CmdQEn) \subseteq Before[j].val
       /\ SelectSeq(Before, IsCmd)
            = <<LogEntry("cmd", CmdCfgiSteRange, {}, EFI_SUCCESS),
                LogEntry("cmd", CmdTlbiNsnhAll, {}, EFI_SUCCESS),
                LogEntry("cmd", CmdTlbiEl2All, {}, EFI_SUCCESS),
                LogEntry("cmd", CmdSync, {}, EFI_SUCCESS)>>
       /\ Acknowledged(Before)

\* SMMU_EN was written after queues that an earlier boot stage had left
\* enabled were disabled first
SmmuEnWrittenWitness ==
  /\ SmmuEnWrites # {}
  /\ boot.log[1] = LogEntry("write", "CR0", {}, EFI_SUCCESS)

\* C18: when bring-up fails after the driver instance was created,
\* InitializeSmmuDxe, before it returns the error, clears the four enable bits
\* of CR0 and requests global abort by writing GBPA with ABORT and UPDATE set;
\* when the hardware acknowledges (every poll of the rollback succeeds and
\* CR0ACK shows CR0), translation is disabled and GBPA.ABORT = 1.
RollbackOnFailure ==
  boot.deinit =>
    LET T == TraceOf("SmmuDeInit")
        FirstGbpa == CHOOSE i \in DOMAIN T : IsPoll(T[i], "GBPA")
                       /\ \A j \in 1 .. (i - 1) : ~IsPoll(T[j], "GBPA")
    IN /\ boot.status # EFI_SUCCESS /\ ~boot.installed
       /\ (regs.CR0 \cap SMMUV3_CR0_SMMU_CMDQ_EVTQ_PRIQ_EN_MASK) = {}
       /\ T[FirstGbpa].st = EFI_SUCCESS =>
            /\ IsWrite(T[FirstGbpa + 1], "GBPA")
            /\ (SMMU_GBPA_ABORT \cup SMMU_GBPA_UPDATE) \subseteq T[FirstGbpa + 1].val
       /\ (Acknowledged(T) /\ regs.CR0ACK = regs.CR0) =>
            /\ (regs.CR0ACK \cap SMMUV3_CR0_SMMU_CMDQ_EVTQ_PRIQ_EN_MASK) = {}
            /\ SMMU_GBPA_ABORT \subseteq regs.GBPA
            /\ (regs.GBPA \cap SMMU_GBPA_UPDATE) = {}

\* A bring-up that failed on GERROR after the SMMU was enabled was rolled
\* back, the hardware acknowledging: CR0 was cleared and GBPA.ABORT set
RollbackWitness ==
  /\ boot.deinit /\ boot.pc = "done" /\ boot.status = EFI_DEVICE_ERROR
  /\ Acknowledged(TraceOf("SmmuDeInit")) /\ regs.CR0ACK = regs.CR0
  /\ IsWrite(TraceOf("SmmuDeInit")[2], "CR0")
  /\ SMMU_GBPA_ABORT \subseteq regs.GBPA
  /\ (TraceOf("SmmuDeInit")[1].val \cap SMMU_GBPA_ABORT) = {}

\* C19: the exit-boot hook, invoked with a live driver instance, first clears
\* the four enable bits of CR0 and waits for CR0ACK, then waits for
\* GBPA.UPDATE to be clear and writes GBPA with ABORT cleared and UPDATE set,
\* the other bits preserved; when the hardware acknowledges, translation is
\* disabled and GBPA.ABORT = 0; no driver memory is freed.
ExitBootSetsBypass ==
  boot.hook = "live" =>
    LET T == TraceOf("SmmuV3ExitBootServices")
    IN /\ IsWrite(T[2], "CR0")
       /\ (T[2].val \cap SMMUV3_CR0_SMMU_CMDQ_EVTQ_PRIQ_EN_MASK) = {}
       /\ IsPoll(T[3], "CR0ACK")
       /\ IsPoll(T[4], "GBPA")
       /\ T[4].st = EFI_SUCCESS =>
            /\ (T[4].val \cap SMMU_GBPA_UPDATE) = {}
            /\ IsWrite(T[5], "GBPA")
            /\ T[5].val = (T[4].val \ SMMU_GBPA_ABORT) \cup SMMU_GBPA_UPDATE
            /\ IsPoll(T[6], "GBPA")
       /\ (regs.CR0 \cap SMMUV3_CR0_SMMU_CMDQ_EVTQ_PRIQ_EN_MASK) = {}
       /\ Acknowledged(T) =>
            /\ (regs.CR0ACK \cap SMMUV3_CR0_SMMU_CMDQ_EVTQ_PRIQ_EN_MASK) = {}
            /\ (regs.GBPA \cap (SMMU_GBPA_ABORT \cup SMMU_GBPA_UPDATE)) = {}
            /\ regs.GBPA = T[1].val \ (SMMU_GBPA_ABORT \cup SMMU_GBPA_UPDATE)
       /\ boot.mSmmu /\ boot.info = "allocated" /\ boot.root = "allocated"
       /\ boot.strtab = "allocated" /\ boot.queues = "allocated"

\* The hook ran on a live instance whose GBPA had ABORT set, and the
\* hardware acknowledged: translation is off, ABORT is clear, SHCFG is kept
ExitBootWitness ==
  /\ boot.hook = "live"
  /\ Acknowledged(TraceOf("SmmuV3ExitBootServices"))
  /\ SMMU_GBPA_ABORT \subseteq TraceOf("SmmuV3ExitBootServices")[1].val
  /\ regs.GBPA = {12}
  /\ regs.CR0ACK \cap SMMUV3_CR0_SMMU_CMDQ_EVTQ_PRIQ_EN_MASK = {}

\* The SMMU translates: SMMU_EN is set in CR0, or CR0ACK still shows it
SmmuEnabled ==
  \/ SMMUV3_CR0_SMMU_EN_MASK \subseteq regs.CR0
  \/ SMMUV3_CR0_SMMU_EN_MASK \subseteq regs.CR0ACK

\* C20 as stated: in every reachable state in which the SMMU is enabled
\* (SMMU_EN set and not yet acknowledged as cleared) the root page table is
\* allocated and has not been freed, whatever the hardware does.
PageTableLiveWhileEnabled == SmmuEnabled => boot.root = "allocated"


\* ---------------------------------------------------------------------------
\* Independence of the protocol calls from the event queue and GERROR
\* ---------------------------------------------------------------------------

\* What a protocol handler returns and the page table it leaves, when it ends
\* with SmmuV3LogErrors on the event queue E and reads GError from SMMU_GERROR
HandlerReturn(Status, Mem, E, GError) ==
  [Status |-> ReturnAfterLogErrors(Status, SmmuV3LogErrorsPrints(E, GError)), Mem |-> Mem]

\* Event queues other than the present one: empty, one fault pending, full
AltEventQueues ==
  LET Zero == [i \in 0 .. (EvtQEntries * SMMUV3_EVENT_QUEUE_ENTRY_SIZE - 1) |-> 0]
      One == SmmuWritesEvent(Zero, 0, FaultRecord(16, 1))
  IN { [Mem |-> Zero, Prod |-> 0, Cons |-> 0],
       [Mem |-> One, Prod |-> 1, Cons |-> 0],
       [Mem |-> One, Prod |-> EvtQEntries, Cons |-> 0] }

\* C22: in every state in which the protocol is called, for every call of
\* Map, Unmap and SetAttribute and every outcome of the allocations, of the
\* command queue and of a read of the unassigned status, the status returned and the page table left are the
\* same whatever the event queue holds and whatever SMMU_GERROR reads.
EventsDoNotInterfere ==
  (phase = "ready" /\ ncalls < MaxCalls) =>
      /\ \A In \in IF Cardinality(DOMAIN maps) < MaxMaps THEN MapInputs ELSE {}, MappingPtr \in BOOLEAN, Avail \in PagesAvailable :
         \A Result \in {MapPageTable(In[1], In[2], MappingPtr, Avail)} :
         \A R \in ReadOfStatus(Result) :
         \A Pool \in PoolOutcomes \ {"null_fault"} :
         \A M \in {MapResult(R, In[1], In[2], Pool)} :
         \A H \in {HandlerReturn(M.Status, M.Mem, EventQ, {})} :
         \A E2 \in AltEventQueues, G2 \in GErrorValues :
           HandlerReturn(M.Status, M.Mem, E2, G2) = H
      /\ \A Mapping \in DOMAIN maps \cup {0} :
         \A Result \in {UnmapPageTable(Mapping)} :
         \A R \in ReadOfStatus(Result) :
         \A C \in IF ~EFI_ERROR(R.Status) THEN SendCommands(CommandQ, <<CmdTlbiNsnhAll, CmdTlbiEl2All, CmdSync>>) ELSE {CommandQ} :
         \A U \in {UnmapResult(Mapping, R, C)} :
         \A H \in {HandlerReturn(U.Status, U.Mem, EventQ, {})} :
         \A E2 \in AltEventQueues, G2 \in GErrorValues :
           HandlerReturn(U.Status, U.Mem, E2, G2) = H
      /\ \A Mapping \in DOMAIN maps \cup {0}, IoMmuAccess \in AccessInputs :
         \A Result \in {SetAttributeResult(Mapping, IoMmuAccess)} :
         \A R \in ReadOfStatus(Result) :
         \A H \in {HandlerReturn(R.Status, R.Mem, EventQ, {})} :
         \A E2 \in AltEventQueues, G2 \in GErrorValues :
           HandlerReturn(R.Status, R.Mem, E2, G2) = H

\* A call that succeeded although its SmmuV3LogErrors found a fault pending
EventsDoNotInterfereWitness ==
  /\ call.op \in {"Map", "Unmap", "SetAttribute"}
  /\ call.status = EFI_SUCCESS
  /\ nevents > 0
  /\ evtqCons = evtqProd
  /\ evtqCons # 0

\* ---------------------------------------------------------------------------
\* SmmuV3Poll as a function of what the successive reads return
\* ---------------------------------------------------------------------------

\* What the reads of a polled register return: Reg, and Acked from the read
\* number K on ("step") or at the read number K only ("pulse")
ReadValues(Kind, K, Reg, Acked) ==
  [i \in 1 .. (PollCount + 1) |->
     IF (Kind = "step" /\ i >= K) \/ (Kind = "pulse" /\ i = K) THEN Acked ELSE Reg]

\* Register before, register after, Mask, Value: the polls of CR0ACK for the
\* disable and for SMMU_EN, of GBPA for UPDATE = 0, and a Value outside Mask
PollCases ==
  { <<Cr0EventQEn \cup Cr0CmdQEn, {}, SMMUV3_CR0_SMMU_CMDQ_EVTQ_PRIQ_EN_MASK, {}>>,
    <<Cr0EventQEn \cup Cr0CmdQEn, {0, 2, 3}, SMMUV3_CR0_SMMU_EN_MASK, SMMUV3_CR0_SMMU_EN_MASK>>,
    <<{12} \cup SMMU_GBPA_UPDATE, {12}, SMMU_GBPA_UPDATE, {}>>,
    <<{}, {0}, SMMUV3_CR0_SMMU_EN_MASK, {1}>> }

\* SmmuInfo->SmmuBase: never 0 (SmmuInit and every caller of SmmuV3Poll
\* return before the poll when it is)
SmmuBases == {4096}

PollInputs == { [fn |-> "poll", SmmuBase |-> b, Values |-> ReadValues(kind, k, c[1], c[2]), Mask |-> c[3], Value |-> c[4]] : b \in SmmuBases, kind \in {"step", "pulse"}, k \in 1 .. (PollCount + 2), c \in PollCases }

InitPoll ==
  /\ DriverIdle
  /\ sender = NoSender
  /\ fnin \in PollInputs
  /\ fnout = NoFn
  /\ consumer = NoConsumer
  /\ regs = NoRegs
  /\ boot = NoBoot

PollRegister ==
  /\ fnin.fn = "poll"
  /\ fnout = NoFn
  /\ \E P \in {SmmuV3PollRegister(fnin.SmmuBase, fnin.Values, fnin.Mask, fnin.Value)} :
       fnout' = [fn |-> "poll", Status |-> P.Status, Reads |-> P.Reads, RegVal |-> P.RegVal]
  /\ UNCHANGED <<fnin, consumer, regs, boot, sender>>
  /\ UNCHANGED driver

NextPoll == PollRegister

SpecPoll == InitPoll /\ [][NextPoll]_vars

\* The reads among the first PollCount that satisfy (value & mask) == expected
SatisfyingReads == { i \in 1 .. PollCount : (fnin.Values[i] \cap fnin.Mask) = fnin.Value }

\* C23: SmmuV3Poll reads the register at least once and at most 10 times; it
\* returns success iff some read among the 10 satisfies
\* (value & mask) == expected, and then it stops at the first such read; it
\* returns timeout, after exactly 10 reads, when none does.
PollIsBoundedWait ==
  (fnout # NoFn /\ fnout.fn = "poll") =>
    /\ fnout.Reads \in 1 .. PollCount
    /\ fnout.Status \in {EFI_SUCCESS, EFI_TIMEOUT}
    /\ (fnout.Status = EFI_SUCCESS) <=> (SatisfyingReads # {})
    /\ SatisfyingReads # {} => /\ fnout.Reads \in SatisfyingReads
                               /\ \A i \in SatisfyingReads : fnout.Reads <= i
    /\ SatisfyingReads = {} => fnout.Status = EFI_TIMEOUT /\ fnout.Reads = PollCount

\* A poll that timed out after ten reads although an eleventh read would
\* have satisfied the test
PollTimeoutWitness ==
  /\ fnout # NoFn /\ fnout.fn = "poll"
  /\ fnout.Status = EFI_TIMEOUT
  /\ fnout.Reads = PollCount
  /\ (fnin.Values[PollCount + 1] \cap fnin.Mask) = fnin.Value

\* ---------------------------------------------------------------------------
\* The IORT table published by AddIortTable
\* ---------------------------------------------------------------------------

\* sizeof of the four members of PLATFORM_IO_REMAPPING_STRUCTURE (packed), as
\* the build lays them out: the 48-byte table header, the ITS node with one
\* identifier, the SMMUv3 node and the root complex node (40 bytes, with its
\* PASID capabilities and flags), the last two each with a 20-byte ID mapping.
\* The table is 220 bytes.
SizeOfIort == 48
SizeOfItsNode == 24
SizeOfSmmuNode == 88
SizeOfRcNode == 60

\* OFFSET_OF (EFI_ACPI_DESCRIPTION_HEADER, Length) and (..., Checksum)
LengthOffset == 4
ChecksumOffset == 9

\* Contents of a member of the configuration: byte i is Seed + i * Step
BytePattern(Size, Seed, Step) == [i \in 1 .. Size |-> (Seed + (i - 1) * Step) % 256]

PatternSeeds == {0, 1, 255}
PatternSteps == {0, 7}

IortInputs == { [fn |-> "iort", Iort |-> BytePattern(SizeOfIort, a[1], a[2]), ItsNode |-> BytePattern(SizeOfItsNode, b[1], b[2]), SmmuNode |-> BytePattern(SizeOfSmmuNode, c[1], c[2]), RcNode |-> BytePattern(SizeOfRcNode, d[1], d[2])] : a \in PatternSeeds \X PatternSteps, b \in PatternSeeds \X {0}, c \in {0, 255} \X PatternSteps, d \in PatternSeeds \X {7} }

InitIort ==
  /\ DriverIdle
  /\ sender = NoSender
  /\ fnin \in IortInputs
  /\ fnout = NoFn
  /\ consumer = NoConsumer
  /\ regs = NoRegs
  /\ boot = NoBoot

\* The 8-bit sum of bytes First .. Last of a buffer (the sum is associative,
\* so the range is halved rather than walked)
RECURSIVE SumRange(_, _, _)
SumRange(Buffer, First, Last) ==
  IF First > Last THEN 0
  ELSE IF First = Last THEN Buffer[First] % 256
  ELSE LET Mid == (First + Last) \div 2
       IN (SumRange(Buffer, First, Mid) + SumRange(Buffer, Mid + 1, Last)) % 256

\* CalculateSum8: the 8-bit sum of the first Length bytes
SumBytes(Buffer, Length) == SumRange(Buffer, 1, Length)

\* CalculateCheckSum8: the two's complement of the 8-bit sum of the buffer
CalculateCheckSum8(Buffer, Length) == (256 - SumBytes(Buffer, Length)) % 256

\* Variant: the checksum field is not zeroed before the sum is taken
AcpiPlatformChecksumKeepOld(Buffer, Size) ==
  [Buffer EXCEPT ![ChecksumOffset + 1] = CalculateCheckSum8(Buffer, Size)]

AcpiPlatformChecksum(Buffer, Size) ==
  LET Zeroed == [Buffer EXCEPT ![ChecksumOffset + 1] = 0]
  IN [Zeroed EXCEPT ![ChecksumOffset + 1] = CalculateCheckSum8(Zeroed, Size)]

\* The store of a UINT32 at a byte offset (little endian)
WriteUint32(Buffer, Offset, Value) ==
  [i \in DOMAIN Buffer |->
     IF i - 1 \in Offset .. (Offset + 3)
     THEN (Value \div (2 ^ (8 * (i - 1 - Offset)))) % 256
     ELSE Buffer[i]]

\* The buffer AddIortTable hands to InstallAcpiTable, and its size
IortTable(Config) ==
  LET TableSize == Len(Config.Iort) + Len(Config.ItsNode) + Len(Config.SmmuNode) + Len(Config.RcNode)
      Header == WriteUint32(Config.Iort, LengthOffset, TableSize)
      New == Header \o Config.ItsNode \o Config.SmmuNode \o Config.RcNode
  IN [Size |-> TableSize, Buffer |-> AcpiPlatformChecksum(New, TableSize)]

AddIortTable(AllocateOk, InstallStatus) ==
  /\ fnin.fn = "iort"
  /\ fnout = NoFn
  /\ fnout' = IF ~AllocateOk
              THEN [fn |-> "iort", Status |-> EFI_OUT_OF_RESOURCES, Published |-> FALSE, Size |-> 0, Buffer |-> <<>>]
              ELSE LET T == IortTable(fnin)
                   IN [fn |-> "iort", Status |-> InstallStatus, Published |-> (InstallStatus = EFI_SUCCESS), Size |-> T.Size, Buffer |-> T.Buffer]
  /\ UNCHANGED <<fnin, consumer, regs, boot, sender>>
  /\ UNCHANGED driver

NextIort == \E AllocateOk \in BOOLEAN, InstallStatus \in {EFI_SUCCESS, EFI_OUT_OF_RESOURCES} : AddIortTable(AllocateOk, InstallStatus)

SpecIort == InitIort /\ [][NextIort]_vars

ReadUint32(Buffer, Offset) ==
  Buffer[Offset + 1] + 256 * Buffer[Offset + 2] + 65536 * Buffer[Offset + 3] + 16777216 * Buffer[Offset + 4]

\* C21: the published IORT blob is header, ITS node, SMMUv3 node, Root-Complex
\* node in that order (the header differing from the configured one in Length
\* and Checksum only), its Length field is the total byte count, and the sum
\* of all its bytes modulo 256 is zero.
IortBlobWellFormed ==
  (fnout # NoFn /\ fnout.fn = "iort" /\ fnout.Published) =>
    LET B == fnout.Buffer
        H == SizeOfIort
        I == SizeOfItsNode
        S == SizeOfSmmuNode
        R == SizeOfRcNode
    IN /\ Len(B) = H + I + S + R
       /\ fnout.Size = Len(B)
       /\ \A i \in 1 .. H : (i - 1 \notin (LengthOffset .. (LengthOffset + 3)) \cup {ChecksumOffset}) => B[i] = fnin.Iort[i]
       /\ \A i \in 1 .. I : B[H + i] = fnin.ItsNode[i]
       /\ \A i \in 1 .. S : B[H + I + i] = fnin.SmmuNode[i]
       /\ \A i \in 1 .. R : B[H + I + S + i] = fnin.RcNode[i]
       /\ ReadUint32(B, LengthOffset) = Len(B)
       /\ SumBytes(B, Len(B)) = 0

\* A published table whose configured header had a non-zero checksum byte and
\* a Length field different from the total
IortBlobWitness ==
  /\ fnout # NoFn
  /\ fnout.fn = "iort"
  /\ fnout.Published
  /\ fnout.Size = 220
  /\ fnin.Iort[ChecksumOffset + 1] # 0
  /\ ReadUint32(fnin.Iort, LengthOffset) # fnout.Size
  /\ fnout.Buffer[ChecksumOffset + 1] # fnin.Iort[ChecksumOffset + 1]


\* ---------------------------------------------------------------------------
\* The operations wait by wait: SmmuV3SendCommand and SmmuV3Poll one register
\* access and one store at a time, with the SMMU running beside them
\* ---------------------------------------------------------------------------

MaxOperations == 3

\* CmdLow and CmdHigh of the commands the driver builds: the opcode, and
\* Range = 31 in CFGI_ALL
CommandWords(Command) == IF Command = CmdCfgiSteRange THEN <<Command, 31>> ELSE <<Command, 0>>

\* A wait of the driver: a SmmuV3SendCommand or a SmmuV3Poll; Optional: the
\* caller polls only when the register it read had a bit to clear
CmdWait(Command) == [kind |-> "cmd", arg |-> Command, optional |-> FALSE]
PollWait(Reg, Optional) == [kind |-> "poll", arg |-> Reg, optional |-> Optional]

\* The waits of the functions an operation calls, in order; a wait that
\* fails ends its function
DisableTranslationWaits == <<PollWait("CR0ACK", TRUE)>>
GlobalAbortWaits == <<PollWait("GBPA", FALSE), PollWait("GBPA", FALSE), PollWait("GBPA", FALSE)>>
SetGlobalBypassWaits == <<PollWait("GBPA", FALSE), PollWait("GBPA", FALSE)>>
SmmuDeInitCalls == <<DisableTranslationWaits, GlobalAbortWaits>>
ExitBootCalls == <<DisableTranslationWaits, SetGlobalBypassWaits>>
UnmapCalls == <<<<CmdWait(CmdTlbiNsnhAll)>>, <<CmdWait(CmdTlbiEl2All)>>, <<CmdWait(CmdSync)>>>>
ConfigureCalls == <<DisableTranslationWaits, <<PollWait("IRQ_CTRLACK", TRUE)>>, <<PollWait("IRQ_CTRLACK", FALSE)>>, <<PollWait("CR0ACK", FALSE)>>, <<CmdWait(CmdCfgiSteRange)>>, <<CmdWait(CmdTlbiNsnhAll)>>, <<CmdWait(CmdTlbiEl2All)>>, <<CmdWait(CmdSync)>>, <<PollWait("CR0ACK", FALSE)>>>>

\* The statuses IoMmuMap and IoMmuSetAttribute return without having
\* waited: a NULL parameter, UpdatePageTable out of pages, or the
\* uninitialised Status of an UpdatePageTable whose loop did not run.  In
\* IoMmuUnmap a Status that is not an error goes on to the commands.
PageTableReturns == {EFI_INVALID_PARAMETER, EFI_OUT_OF_RESOURCES, StatusNonError, StatusError}
UnmapReturns == {EFI_INVALID_PARAMETER, EFI_OUT_OF_RESOURCES, StatusError}

\* The operations.  BringUp is SmmuV3Configure, Teardown is SmmuDeInit (which
\* InitializeSmmuDxe calls when AddIortTable, SmmuV3Configure or IoMmuInit
\* failed), ExitBoot is the exit-boot hook; the others are protocol calls.
\* onError: what the operation does with the failure of a function it
\* called, "return" it or log it and "continue".  returns: where it returns
\* a status no wait gave it, <<number of calls still to make, status>>: the
\* parameter checks and UpdatePageTable before the commands of IoMmuUnmap,
\* the allocations of SmmuV3Configure (after its second call), GERROR not
\* zero (after its last).  faults: where it stores through the result of an
\* allocation it has not tested (ZeroMem in SmmuV3AllocateStreamTable after
\* the second call of SmmuV3Configure, MapInfo->NumberOfBytes in IoMmuMap).
\* logs: it ends with SmmuV3LogErrors, which reads the event queue.
Operations ==
  { [name |-> "SendCommand", calls |-> <<<<CmdWait(CmdCfgiSteRange)>>>>, onError |-> "return", returns |-> {}, faults |-> {}, logs |-> FALSE],
    [name |-> "Map", calls |-> << >>, onError |-> "return", returns |-> {0} \X PageTableReturns, faults |-> {0}, logs |-> TRUE],
    [name |-> "SetAttribute", calls |-> << >>, onError |-> "return", returns |-> {0} \X PageTableReturns, faults |-> {}, logs |-> TRUE],
    [name |-> "Unmap", calls |-> UnmapCalls, onError |-> "return", returns |-> {Len(UnmapCalls)} \X UnmapReturns, faults |-> {}, logs |-> TRUE],
    [name |-> "BringUp", calls |-> ConfigureCalls, onError |-> "return", returns |-> {<<Len(ConfigureCalls) - 2, EFI_OUT_OF_RESOURCES>>, <<0, EFI_DEVICE_ERROR>>}, faults |-> {Len(ConfigureCalls) - 2}, logs |-> TRUE],
    [name |-> "Teardown", calls |-> SmmuDeInitCalls, onError |-> "continue", returns |-> {}, faults |-> {}, logs |-> FALSE],
    [name |-> "ExitBoot", calls |-> ExitBootCalls, onError |-> "continue", returns |-> {}, faults |-> {}, logs |-> FALSE] }

\* mSmmu as SmmuInit left it: the SMMU_INFO, or NULL when AllocateZeroPool
\* failed and the store through its result did not fault
SmmuInitOutcomes == {"allocated", "null"}

RECURSIVE NumberOfWaits(_)
NumberOfWaits(Calls) == IF Calls = << >> THEN 0 ELSE Len(Head(Calls)) + NumberOfWaits(Tail(Calls))

NoFetch == [any |-> FALSE, written |-> TRUE]

\* The locals of a wait before it starts
NoWait == [Count |-> 0, reads |-> 0, Prod |-> 0, Cons |-> 0, Index |-> 0, words |-> {}, NewProd |-> 0, ret |-> EFI_SUCCESS, expired |-> FALSE]

IdleSender ==
  [pc |-> "idle", op |-> "none", calls |-> << >>, group |-> << >>, onError |-> "return",
   returns |-> {}, faults |-> {}, logs |-> FALSE, info |-> "allocated", queues |-> "none",
   event |-> "created", hook |-> "none",
   reports |-> FALSE, status |-> EFI_SUCCESS, life |-> "fresh", w |-> NoWait, buffer |-> {},
   started |-> 0, allowed |-> 0, expiries |-> 0, nops |-> 0,
   written |-> {}, fetched |-> NoFetch]

InitCmdQ ==
  /\ phase = "none"
  /\ pt = [t \in {PageTableRoot} |-> EmptyPage]
  /\ allocated = 1
  /\ maps = [h \in {} |-> NoInfo]
  /\ cmdq = [i \in 0 .. (CmdQEntries - 1) |-> <<0, 0>>]
  /\ cmdqProd = 0
  /\ cmdqCons = 0
  /\ evtq = [i \in 0 .. (EvtQEntries * SMMUV3_EVENT_QUEUE_ENTRY_SIZE - 1) |-> 0]
  /\ evtqProd \in InitialEventQProd
  /\ evtqCons = 0
  /\ nevents = 0
  /\ ncalls = 0
  /\ call = NoCall
  /\ sent = << >>
  /\ rt = NoRt
  /\ fnin = NoFn
  /\ fnout = NoFn
  /\ consumer = NoConsumer
  /\ regs = NoRegs
  /\ boot = NoBoot
  /\ sender \in { [IdleSender EXCEPT !.info = Info] : Info \in SmmuInitOutcomes }

CmdQFrame == UNCHANGED <<phase, pt, allocated, maps, evtq, evtqProd, evtqCons, nevents, ncalls, call, sent, rt, fnin, fnout, consumer, regs, boot>>

\* What no step of an operation changes
CmdQRest == UNCHANGED <<phase, pt, allocated, maps, evtq, nevents, ncalls, call, sent, rt, fnin, fnout, consumer, regs, boot>>

\* The queue is full for the copies of PROD and CONS the call holds
SenderFindsFull(W) ==
  LET WrapMask == CmdQEntries
      QueueMask == WrapMask - 1
  IN SMMUV3_IS_QUEUE_FULL(BitAnd(W.Prod, QueueMask), BitAnd(W.Prod, WrapMask), BitAnd(W.Cons, QueueMask), BitAnd(W.Cons, WrapMask))

\* "if ((Count == 0) && (condition still holds)) return EFI_TIMEOUT"
WaitStatus(Count, Waiting) == IF Count = 0 /\ Waiting THEN EFI_TIMEOUT ELSE EFI_SUCCESS

\* The operations that can begin.  InitializeSmmuDxe runs SmmuV3Configure
\* first, or SmmuDeInit alone when AddIortTable failed; SmmuDeInit follows a
\* failed SmmuV3Configure, or a successful one when IoMmuInit failed; the
\* protocol calls and the exit-boot hook follow a successful SmmuV3Configure.
\* The hook runs once; it leaves mSmmu and the protocol as they are, so
\* protocol calls may follow it, and a callback that its RestoreTPL lets run
\* may make them before the hook closes its event; nothing follows SmmuDeInit.
Startable(Op) ==
  CASE sender.life = "fresh" -> Op.name \in {"BringUp", "Teardown"}
    [] sender.life = "failed" -> Op.name = "Teardown"
    [] sender.life = "up" ->
         CASE Op.name = "BringUp" -> FALSE
           [] Op.name = "Teardown" -> sender.op = "BringUp"
           [] Op.name = "ExitBoot" -> sender.event = "created" /\ sender.hook = "none"
           [] OTHER -> TRUE
    [] OTHER -> FALSE

\* What an operation that returned Status leaves of the driver: "up" with
\* mSmmu configured, "failed" until SmmuDeInit has run, "down" after it
LifeAfter(Name, Status, Life) ==
  IF Name = "BringUp" THEN (IF EFI_ERROR(Status) THEN "failed" ELSE "up")
  ELSE IF Name = "Teardown" THEN "down"
  ELSE Life

\* A protocol call, bring-up, teardown or the exit-boot hook begins.  With
\* mSmmu NULL, SmmuV3Configure returns EFI_INVALID_PARAMETER and SmmuDeInit
\* returns, both before their first register access.
StartOperation(Op) ==
  /\ sender.pc = "idle"
  /\ sender.nops < MaxOperations
  /\ Startable(Op)
  /\ \E Null \in {sender.info = "null" /\ Op.name \in {"BringUp", "Teardown"}} :
     \E Calls \in {IF Null THEN << >> ELSE Op.calls} :
       sender' = [sender EXCEPT !.pc = "next", !.op = Op.name, !.calls = Calls, !.group = << >>,
                                !.onError = Op.onError, !.reports = (Op.onError # "continue"),
                                !.returns = IF Null THEN {} ELSE Op.returns,
                                !.faults = IF Null THEN {} ELSE Op.faults,
                                !.logs = Op.logs /\ ~Null,
                                !.status = IF Null /\ Op.name = "BringUp" THEN EFI_INVALID_PARAMETER ELSE EFI_SUCCESS,
                                !.w = NoWait, !.started = 0,
                                !.allowed = NumberOfWaits(Calls),
                                !.expiries = 0, !.nops = @ + 1]
  /\ UNCHANGED <<cmdq, cmdqProd, cmdqCons>>
  /\ CmdQFrame

\* SmmuV3Configure has made its first two calls and allocated its tables and
\* queues: it records the queues in SmmuInfo and writes the queue registers
ConfigureProgramsQueues ==
  sender.op = "BringUp" /\ sender.group = << >> /\ Len(sender.calls) = Len(ConfigureCalls) - 2

\* The operation goes on to its next wait, or returns when none is left.  An
\* operation that ends with SmmuV3LogErrors reads the event queue registers
\* first: before SmmuInfo has the queues, EventQueueLog2Size is 0 and
\* EventQueue is NULL, and a queue found not empty makes CopyMem read at
\* address 0, which faults (NullRead = "null_fault": the operation does not
\* return) or reads what is there.  The exit-boot hook, its waits made, is at
\* RestoreTPL: the boot services may run callbacks before it goes on.
NextWait(Skip, NullRead) ==
  /\ sender.pc = "next"
  /\ IF sender.group = << >> /\ sender.calls = << >>
     THEN \E C \in {ConsumeEventQueue(EventQ, 0, IF sender.queues = "allocated" THEN EvtQLog2 ELSE 0)} :
          \E ReadsNull \in {sender.logs /\ sender.queues # "allocated" /\ ~C.IsEmpty} :
            IF ReadsNull /\ NullRead = "null_fault"
            THEN /\ sender' = [sender EXCEPT !.pc = "halted"]
                 /\ UNCHANGED <<cmdqProd, cmdqCons, evtqProd, evtqCons>>
            ELSE /\ sender' = [sender EXCEPT !.pc = "idle", !.w = NoWait, !.returns = {}, !.faults = {},
                                             !.life = LifeAfter(sender.op, sender.status, @),
                                             !.queues = IF sender.op = "Teardown" THEN "none" ELSE @,
                                             !.hook = IF sender.op = "ExitBoot" THEN "restore" ELSE @]
                 /\ evtqCons' = IF sender.logs THEN C.Cons ELSE evtqCons
                 /\ UNCHANGED <<cmdqProd, cmdqCons, evtqProd>>
     ELSE IF ConfigureProgramsQueues
     THEN /\ sender' = [sender EXCEPT !.group = Head(sender.calls), !.calls = Tail(sender.calls),
                                      !.queues = "allocated"]
          /\ cmdqProd' = 0
          /\ cmdqCons' = 0
          /\ evtqProd' = 0
          /\ evtqCons' = 0
     ELSE IF sender.group = << >>
     THEN /\ sender' = [sender EXCEPT !.group = Head(sender.calls), !.calls = Tail(sender.calls)]
          /\ UNCHANGED <<cmdqProd, cmdqCons, evtqProd, evtqCons>>
     ELSE /\ LET Wait == Head(sender.group)
             IN IF Wait.optional /\ Skip
                THEN sender' = [sender EXCEPT !.group = Tail(@)]
                ELSE sender' = [sender EXCEPT !.pc = IF Wait.kind = "cmd" THEN "read" ELSE "poll",
                                              !.w = [NoWait EXCEPT !.Count = PollCount],
                                              !.started = @ + 1]
          /\ UNCHANGED <<cmdqProd, cmdqCons, evtqProd, evtqCons>>
  /\ UNCHANGED cmdq
  /\ CmdQRest

\* The exit-boot hook, back from RestoreTPL and from the callbacks that ran
\* in it, closes its event and returns
HookClosesEvent ==
  /\ sender.pc = "idle"
  /\ sender.hook = "restore"
  /\ sender' = [sender EXCEPT !.hook = "left", !.event = "closed"]
  /\ UNCHANGED <<cmdq, cmdqProd, cmdqCons>>
  /\ CmdQFrame

\* The operation finds, between two of its calls, what makes it return
\* Status without a wait having failed; with a Status that is no error
\* IoMmuMap goes on to its allocation
ReturnsEarly(Status) ==
  /\ sender.pc = "next"
  /\ sender.group = << >>
  /\ <<Len(sender.calls), Status>> \in sender.returns
  /\ sender' = [sender EXCEPT !.calls = << >>, !.returns = {}, !.status = Status,
                              !.faults = IF EFI_ERROR(Status) THEN {} ELSE @]
  /\ UNCHANGED <<cmdq, cmdqProd, cmdqCons>>
  /\ CmdQFrame

\* The store through the NULL a failed allocation returned faults: the
\* operation does not return.  (When address 0 takes the store the operation
\* goes on: ReturnsEarly or NextWait.)
StoreThroughNull ==
  /\ sender.pc = "next"
  /\ sender.group = << >>
  /\ Len(sender.calls) \in sender.faults
  /\ sender' = [sender EXCEPT !.pc = "halted"]
  /\ UNCHANGED <<cmdq, cmdqProd, cmdqCons>>
  /\ CmdQFrame

\* One iteration of the loop of SmmuV3Poll; Satisfied: the value read has
\* (RegVal & Mask) == Value
PollReads(Satisfied) ==
  /\ sender.pc = "poll"
  /\ sender' = IF Satisfied
               THEN [sender EXCEPT !.pc = "ret", !.w.reads = @ + 1, !.w.ret = EFI_SUCCESS]
               ELSE IF sender.w.Count - 1 > 0
               THEN [sender EXCEPT !.w.reads = @ + 1, !.w.Count = @ - 1]
               ELSE [sender EXCEPT !.pc = "ret", !.w.reads = @ + 1, !.w.Count = @ - 1,
                                   !.w.ret = EFI_TIMEOUT, !.w.expired = TRUE]
  /\ UNCHANGED <<cmdq, cmdqProd, cmdqCons>>
  /\ CmdQFrame

\* SmmuV3SendCommand: the first reads of SMMU_CMDQ_PROD and SMMU_CMDQ_CONS
SendReadsQueue ==
  /\ sender.pc = "read"
  /\ sender' = [sender EXCEPT !.pc = "full", !.w.Prod = cmdqProd, !.w.Cons = cmdqCons, !.w.reads = 1]
  /\ UNCHANGED <<cmdq, cmdqProd, cmdqCons>>
  /\ CmdQFrame

\* SmmuV3SendCommand: the loop that waits while the queue is full, and the
\* test after it
SendWaitsWhileFull ==
  /\ sender.pc = "full"
  /\ sender' = IF sender.w.Count > 0 /\ SenderFindsFull(sender.w)
               THEN [sender EXCEPT !.w.Prod = cmdqProd, !.w.Cons = cmdqCons,
                                   !.w.reads = @ + 1, !.w.Count = @ - 1]
               ELSE IF WaitStatus(sender.w.Count, SenderFindsFull(sender.w)) # EFI_SUCCESS
               THEN [sender EXCEPT !.pc = "ret", !.w.ret = WaitStatus(sender.w.Count, SenderFindsFull(sender.w)),
                                   !.w.expired = TRUE]
               ELSE [sender EXCEPT !.pc = "store",
                                   !.w.expired = (sender.w.Count = 0 /\ SenderFindsFull(sender.w)),
                                   !.w.Index = BitAnd(sender.w.Prod, CmdQEntries - 1),
                                   !.w.words = {1, 2}, !.written = @ \ {BitAnd(sender.w.Prod, CmdQEntries - 1)}]
  /\ UNCHANGED <<cmdq, cmdqProd, cmdqCons>>
  /\ CmdQFrame

\* SmmuV3WriteCommands: CommandQueue[ProducerIndex] = Commands[0], a copy of
\* two 64-bit words in an order the compiler chooses; a store is not yet
\* visible to the SMMU when it is issued
SendStoresWord(Word) ==
  /\ sender.pc = "store"
  /\ Word \in sender.w.words
  /\ sender' = [sender EXCEPT !.buffer = @ \cup {<<sender.w.Index, Word, CommandWords(Head(sender.group).arg)[Word]>>},
                              !.w.words = @ \ {Word},
                              !.pc = IF sender.w.words = {Word} THEN "barrier" ELSE "store"]
  /\ UNCHANGED <<cmdq, cmdqProd, cmdqCons>>
  /\ CmdQFrame

\* The memory system makes a store visible
StoreBecomesVisible ==
  /\ sender.pc # "none"
  /\ \E b \in sender.buffer :
       /\ cmdq' = [cmdq EXCEPT ![b[1]] = [@ EXCEPT ![b[2]] = b[3]]]
       /\ sender' = [sender EXCEPT !.buffer = @ \ {b}]
  /\ UNCHANGED <<cmdqProd, cmdqCons>>
  /\ CmdQFrame

\* Memory after every store of Buffer became visible (at most one per word)
RECURSIVE Drained(_, _)
Drained(Mem, Buffer) ==
  IF Buffer = {} THEN Mem
  ELSE LET b == CHOOSE x \in Buffer : TRUE
       IN Drained([Mem EXCEPT ![b[1]] = [@ EXCEPT ![b[2]] = b[3]]], Buffer \ {b})

\* ArmDataSynchronizationBarrier: it completes when the stores before it are
\* visible; the command at Index is then completely written
SendBarrier ==
  /\ sender.pc = "barrier"
  /\ cmdq' = Drained(cmdq, sender.buffer)
  /\ sender' = [sender EXCEPT !.pc = "prod", !.buffer = {}, !.written = @ \cup {sender.w.Index}]
  /\ UNCHANGED <<cmdqProd, cmdqCons>>
  /\ CmdQFrame

\* The write of SMMU_CMDQ_PROD
SendWritesProd ==
  /\ sender.pc = "prod"
  /\ \E Written \in {NewProducer(sender.w.Index, CmdQEntries - 1, CmdQEntries)} :
       /\ cmdqProd' = Written
       /\ sender' = [sender EXCEPT !.pc = "cons", !.w.NewProd = Written]
  /\ UNCHANGED <<cmdq, cmdqCons>>
  /\ CmdQFrame

\* The read of SMMU_CMDQ_CONS before the second loop
SendReadsCons ==
  /\ sender.pc = "cons"
  /\ sender' = [sender EXCEPT !.pc = "wait", !.w.Cons = cmdqCons, !.w.Count = PollCount, !.w.reads = 1]
  /\ UNCHANGED <<cmdq, cmdqProd, cmdqCons>>
  /\ CmdQFrame

\* The loop that waits for the command to be consumed, and the test after it
SendWaitsConsumed ==
  /\ sender.pc = "wait"
  /\ sender' = IF sender.w.Count > 0 /\ sender.w.Cons < sender.w.NewProd
               THEN [sender EXCEPT !.w.Cons = cmdqCons, !.w.reads = @ + 1, !.w.Count = @ - 1]
               ELSE [sender EXCEPT !.pc = "ret",
                                   !.w.ret = WaitStatus(sender.w.Count, sender.w.Cons < sender.w.NewProd),
                                   !.w.expired = (@ \/ (sender.w.Count = 0 /\ sender.w.Cons < sender.w.NewProd))]
  /\ UNCHANGED <<cmdq, cmdqProd, cmdqCons>>
  /\ CmdQFrame

\* The wait returned to the function that made it, and that function to the
\* operation: go on, return the error, or log it and go on
WaitReturns ==
  /\ sender.pc = "ret"
  /\ sender' = IF sender.w.ret = EFI_SUCCESS
               THEN [sender EXCEPT !.pc = "next", !.group = Tail(@),
                                   !.expiries = @ + (IF sender.w.expired THEN 1 ELSE 0)]
               ELSE IF sender.onError = "return"
               THEN [sender EXCEPT !.pc = "next", !.group = << >>, !.calls = << >>, !.returns = {},
                                   !.faults = {},
                                   !.status = sender.w.ret, !.expiries = @ + 1]
               ELSE [sender EXCEPT !.pc = "next", !.group = << >>]
  /\ UNCHANGED <<cmdq, cmdqProd, cmdqCons>>
  /\ CmdQFrame

\* The SMMU fetches the entry at its consumer index, which SMMU_CMDQ_PROD
\* tells it is there, and advances SMMU_CMDQ_CONS
SmmuFetchesCommand ==
  /\ sender.pc # "none"
  /\ cmdqCons # cmdqProd
  /\ cmdqCons' = SmmuConsumeOne(cmdqCons, cmdqProd)
  /\ sender' = [sender EXCEPT !.fetched = [any |-> TRUE, written |-> (cmdqCons % CmdQEntries) \in sender.written],
                              !.written = @ \ {cmdqCons % CmdQEntries}]
  /\ UNCHANGED <<cmdq, cmdqProd>>
  /\ CmdQFrame

\* The steps of the driver inside an operation
SenderStep ==
  \/ \E Skip \in BOOLEAN, NullRead \in NullReads : NextWait(Skip, NullRead)
  \/ \E Status \in PageTableReturns \cup {EFI_DEVICE_ERROR} : ReturnsEarly(Status)
  \/ StoreThroughNull
  \/ HookClosesEvent
  \/ \E Satisfied \in BOOLEAN : PollReads(Satisfied)
  \/ SendReadsQueue
  \/ SendWaitsWhileFull
  \/ \E Word \in {1, 2} : SendStoresWord(Word)
  \/ SendBarrier
  \/ SendWritesProd
  \/ SendReadsCons
  \/ SendWaitsConsumed
  \/ WaitReturns

NextCmdQ ==
  \/ \E Op \in Operations : StartOperation(Op)
  \/ \E Skip \in BOOLEAN, NullRead \in NullReads : NextWait(Skip, NullRead)
  \/ \E Status \in PageTableReturns \cup {EFI_DEVICE_ERROR} : ReturnsEarly(Status)
  \/ StoreThroughNull
  \/ HookClosesEvent
  \/ \E Satisfied \in BOOLEAN : PollReads(Satisfied)
  \/ SendReadsQueue
  \/ SendWaitsWhileFull
  \/ \E Word \in {1, 2} : SendStoresWord(Word)
  \/ StoreBecomesVisible
  \/ SendBarrier
  \/ SendWritesProd
  \/ SendReadsCons
  \/ SendWaitsConsumed
  \/ WaitReturns
  \/ SmmuFetchesCommand

SpecCmdQ == InitCmdQ /\ [][NextCmdQ]_vars

\* The boot CPU executes the driver: a step of an operation that can be taken
\* is taken.  No step is enabled once the operation faulted, and nothing is
\* assumed of the SMMU.
SpecCmdQLive == SpecCmdQ /\ WF_vars(SenderStep)


\* C24: bounded waiting. Whatever the SMMU does, also when it never
\* acknowledges and never advances CONS: no loop reads its register more than
\* 11 times, a wait that gives up returns EFI_TIMEOUT to its caller, an
\* operation that returns a status returns EFI_TIMEOUT exactly when one of its
\* waits gave up and starts no wait again, and every operation that was
\* started returns: it does not stop short of its return, and it reaches it.
WaitsAreBounded ==
  /\ sender.w.reads <= PollCount + 1
  /\ sender.w.Count <= PollCount
  /\ sender.started <= sender.allowed
ExpiryIsReported ==
  /\ sender.pc = "ret" => (sender.w.expired <=> sender.w.ret = EFI_TIMEOUT)
  /\ (sender.pc = "idle" /\ sender.reports) => (sender.status = EFI_TIMEOUT <=> sender.expiries > 0)
  /\ sender.reports => sender.expiries <= 1
OperationGoesOn == sender.pc # "halted"
BoundedWaiting == [](sender.pc # "none" => WaitsAreBounded /\ ExpiryIsReported /\ OperationGoesOn) /\ ((sender.pc \notin {"none", "idle"}) ~> (sender.pc = "idle")) /\ ((sender.pc # "none" /\ sender.hook = "restore") ~> (sender.hook = "left"))

\* C25: the SMMU fetches from a slot only a command the driver wrote
\* completely (both words, then the barrier) and that it has not fetched before.
SmmuFetchesOnlyWritten == sender.pc # "none" => sender.fetched.written


-----------------------------------------------------------------------------
\* C26 as stated: a leaf write with valid and not rw_only keeps the attribute
\* bits the leaf has: when a successful Map covers a page whose leaf is valid,
\* the READ and WRITE bits that leaf had are still set afterwards.
MapKeepsGrantedStep ==
  (ProtocolStep("Map") /\ call'.status = EFI_SUCCESS)
    => \A p \in PagesOf(call'.host, call'.bytes) :
         IsValid(LeafAt(pt, p))
           => /\ HasBit(LeafAt(pt, p), PAGE_TABLE_READ_BIT) => HasBit(LeafAt(pt', p), PAGE_TABLE_READ_BIT)
              /\ HasBit(LeafAt(pt, p), PAGE_TABLE_WRITE_BIT) => HasBit(LeafAt(pt', p), PAGE_TABLE_WRITE_BIT)

MapKeepsGranted == [][MapKeepsGrantedStep]_vars

\* C26: a leaf write with valid and not rw_only assigns the whole entry: after
\* a successful Map every leaf of the range is exactly the page address with
\* VALID and the given flags (ACCESS_FLAG, DESCRIPTOR), whatever the leaf held
\* before; READ and WRITE bits granted earlier are cleared.  (A Map writes
\* the leaves of its range unless the range ends at 2^64.)
MapOverwritesLeafStep ==
  (ProtocolStep("Map") /\ call'.status = EFI_SUCCESS /\ ~RangeWraps(call'.host, call'.bytes))
    => \A p \in PagesOf(call'.host, call'.bytes) :
         LeafAt(pt', p) = p + PAGE_TABLE_ENTRY_VALID_BIT + PAGE_TABLE_ACCESS_FLAG + PAGE_TABLE_DESCRIPTOR

MapOverwritesLeaf == [][MapOverwritesLeafStep]_vars

\* A successful Map of a page whose leaf was valid with READ and WRITE granted
\* before the call; the leaf has neither bit now
MapOverwritesLeafWitness ==
  /\ call.op = "Map" /\ call.status = EFI_SUCCESS
  /\ rt.st = "mapped"
  /\ \E p \in PagesOf(call.host, call.bytes) :
       /\ IsValid(LeafAt(rt.before, p))
       /\ HasBit(LeafAt(rt.before, p), PAGE_TABLE_READ_BIT)
       /\ HasBit(LeafAt(rt.before, p), PAGE_TABLE_WRITE_BIT)
       /\ IsValid(LeafAt(pt, p))
       /\ ~HasBit(LeafAt(pt, p), PAGE_TABLE_READ_BIT)
       /\ ~HasBit(LeafAt(pt, p), PAGE_TABLE_WRITE_BIT)


-----------------------------------------------------------------------------
\* The table pages at Level that a walk from the root can reach
RECURSIVE TablesAt(_, _)
TablesAt(Mem, Level) ==
  IF Level = 0 THEN {PageTableRoot}
  ELSE UNION { { TableOf(Mem[t][i]) : i \in DOMAIN Mem[t] } : t \in TablesAt(Mem, Level - 1) \cap DOMAIN Mem }

\* Every non-zero entry of levels 0..2
NonLeafEntries(Mem) ==
  UNION { UNION { { [level |-> l, table |-> t, index |-> i, entry |-> Mem[t][i]] : i \in DOMAIN Mem[t] } : t \in TablesAt(Mem, l) \cap DOMAIN Mem } : l \in 0 .. (PAGE_TABLE_DEPTH - 2) }

LowBits(Entry) == Entry % EFI_PAGE_SIZE

\* C27 as stated: the low 12 bits of every non-zero entry of levels 0..2 carry
\* nothing except VALID (bit 0) and DESCRIPTOR (bit 1).
NonLeafOnlyMarkers ==
  \A e \in NonLeafEntries(pt) : BitClear(LowBits(e.entry), PAGE_TABLE_ENTRY_VALID_BIT + PAGE_TABLE_DESCRIPTOR) = 0

\* C27: the low 12 bits of every non-zero entry of levels 0..2 are VALID,
\* DESCRIPTOR and ACCESS_FLAG (the flags of Map, ORed into every entry on the
\* path), together with the READ and WRITE bits SetAttribute ORed into the
\* entries on the path of its range, and nothing else.
NonLeafCarryFlags ==
  \A e \in NonLeafEntries(pt) :
    BitClear(LowBits(e.entry), PAGE_TABLE_READ_BIT + PAGE_TABLE_WRITE_BIT)
      = PAGE_TABLE_ENTRY_VALID_BIT + PAGE_TABLE_DESCRIPTOR + PAGE_TABLE_ACCESS_FLAG

\* After a SetAttribute that granted read and write, an entry of level 0
\* carries ACCESS_FLAG, READ and WRITE beside the two markers
NonLeafCarryFlagsWitness ==
  /\ call.op = "SetAttribute" /\ call.status = EFI_SUCCESS
  /\ \E e \in NonLeafEntries(pt) :
       /\ e.level = 0
       /\ HasBit(e.entry, PAGE_TABLE_ACCESS_FLAG)
       /\ HasBit(e.entry, PAGE_TABLE_READ_BIT)
       /\ HasBit(e.entry, PAGE_TABLE_WRITE_BIT)


-----------------------------------------------------------------------------
\* The tree below the root: every non-zero entry of levels 0..2, with its low
\* 12 bits masked off, is the address of an allocated table page other than
\* the root, that no other entry points to
TreeShape(Mem) ==
  /\ \A e \in NonLeafEntries(Mem) :
       /\ TableOf(e.entry) \in DOMAIN Mem
       /\ TableOf(e.entry) # PageTableRoot
       /\ TableOf(e.entry) % EFI_PAGE_SIZE = 0
       /\ LowBits(e.entry) = e.entry - TableOf(e.entry)
  /\ \A e1, e2 \in NonLeafEntries(Mem) : TableOf(e1.entry) = TableOf(e2.entry) => e1 = e2

\* A table page linked by the call just made holds nothing but what that call
\* wrote on the paths of its range: it was zero when it was linked
NewTablesZeroStep ==
  \A l \in 1 .. (PAGE_TABLE_DEPTH - 1) :
    \A t \in (TablesAt(pt', l) \cap DOMAIN pt') \ DOMAIN pt :
      /\ ProtocolStep("Map")
      /\ DOMAIN pt'[t] \subseteq { WalkIndex(p, l) : p \in PagesOf(call'.host, call'.bytes) }

\* C28: tree well-formedness.  After any sequence of Map, Unmap and
\* SetAttribute calls, also when a Map failed with out-of-resources part-way,
\* every non-zero entry of levels 0..2 with its low 12 bits masked off is the
\* 4 KiB-aligned address of an allocated table page that has exactly one
\* parent entry and is not the root (no sharing, no cycle), and each table
\* page was zero when it was linked.
TreeWellFormed == [](TreeShape(pt)) /\ [][NewTablesZeroStep]_vars

\* A Map of two pages failed with out-of-resources after it linked new tables
\* for its first page; the tables stay linked
TreeWellFormedWitness ==
  /\ call.op = "Map" /\ call.status = EFI_OUT_OF_RESOURCES
  /\ Cardinality(NonLeafEntries(pt)) > 3
  /\ \E e \in NonLeafEntries(pt) : pt[TableOf(e.entry)] = EmptyPage


-----------------------------------------------------------------------------
\* UpdateMapping and UpdatePageTable as functions, applied to the tables that
\* earlier applications left

MaxUpdates == 2

UpdateAddresses == {0, PageA, PageB}
UpdateRangeStarts == {0, PageB, HostTop}   \* HostTop: the range ends beyond 2^64
UpdateFlagValues == {0, PAGE_TABLE_READ_BIT + PAGE_TABLE_WRITE_BIT, EFI_PAGE_SIZE}
UpdateLengths == {0, EFI_PAGE_SIZE + 1}
UpdateAvail == {2, 5}

InitMapping ==
  /\ DriverIdle
  /\ sender = NoSender
  /\ fnin = NoFn
  /\ fnout = NoFn
  /\ consumer = NoConsumer
  /\ regs = NoRegs
  /\ boot = NoBoot

MappingFrame == UNCHANGED <<phase, maps, cmdq, cmdqProd, cmdqCons, evtq, evtqProd, evtqCons, nevents, call, sent, rt, consumer, regs, boot, sender>>

CallUpdateMapping(Address, Flags, Valid, SetReadWriteFlagsOnly, Avail) ==
  /\ phase = "none"
  /\ ncalls < MaxUpdates
  /\ ncalls' = ncalls + 1
  /\ fnin' = [fn |-> "UpdateMapping", Address |-> Address, Bytes |-> 0, Flags |-> Flags, Valid |-> Valid, SetReadWriteFlagsOnly |-> SetReadWriteFlagsOnly, Avail |-> Avail]
  /\ \E R \in {UpdateMapping([Mem |-> pt, Used |-> allocated, Limit |-> allocated + Avail], PageTableRoot, Address, Address, Flags, Valid, SetReadWriteFlagsOnly)} :
       /\ pt' = R.Mem
       /\ allocated' = R.Used
       /\ fnout' = [fn |-> "UpdateMapping", Status |-> R.Status]
  /\ MappingFrame

CallUpdatePageTable(Address, Bytes, Flags, Valid, SetReadWriteFlagsOnly, Avail) ==
  /\ phase = "none"
  /\ ncalls < MaxUpdates
  /\ ncalls' = ncalls + 1
  /\ fnin' = [fn |-> "UpdatePageTable", Address |-> Address, Bytes |-> Bytes, Flags |-> Flags, Valid |-> Valid, SetReadWriteFlagsOnly |-> SetReadWriteFlagsOnly, Avail |-> Avail]
  /\ \E Result \in {UpdatePageTable([Mem |-> pt, Used |-> allocated, Limit |-> allocated + Avail], PageTableRoot, Address, Bytes, Flags, Valid, SetReadWriteFlagsOnly)} :
     \E R \in ReadOfStatus(Result) :
       /\ pt' = R.Mem
       /\ allocated' = R.Used
       /\ fnout' = [fn |-> "UpdatePageTable", Status |-> R.Status]
  /\ MappingFrame

\* Variant: the walk stops one level too late
DepthReachedLate(Level) == Level > PAGE_TABLE_DEPTH

\* "Level >= PAGE_TABLE_DEPTH" of PageTableDeInit
DepthReached(Level) == Level >= PAGE_TABLE_DEPTH

\* PageTableDeInit (Level, PageTable): the pages it passes to FreePages, in
\* order.  DeInitEntries is its for loop over the entries not yet visited,
\* in ascending index order.
RECURSIVE PageTableDeInit(_, _, _)
RECURSIVE DeInitEntries(_, _, _, _)
DeInitEntries(Mem, Level, Entries, Indices) ==
  IF Indices = {} THEN << >>
  ELSE LET Index == CHOOSE i \in Indices : \A j \in Indices : i <= j
       IN PageTableDeInit(Mem, Level + 1, TableOf(Entries[Index])) \o DeInitEntries(Mem, Level, Entries, Indices \ {Index})

PageTableDeInit(Mem, Level, PageTable) ==
  IF DepthReached(Level) \/ PageTable = 0
  THEN << >>
  ELSE LET Entries == IF PageTable \in DOMAIN Mem THEN Mem[PageTable] ELSE EmptyPage
       IN DeInitEntries(Mem, Level, Entries, DOMAIN Entries) \o <<PageTable>>

\* SmmuDeInit: PageTableDeInit (0, SmmuInfo->PageTableRoot)
CallPageTableDeInit ==
  /\ phase = "none"
  /\ phase' = "freed"
  /\ fnin' = [fn |-> "PageTableDeInit", Mem |-> pt]
  /\ \E Pages \in {PageTableDeInit(pt, 0, PageTableRoot)} :
       /\ fnout' = [fn |-> "PageTableDeInit", Freed |-> Pages]
       /\ pt' = [t \in DOMAIN pt \ { Pages[k] : k \in DOMAIN Pages } |-> pt[t]]
  /\ UNCHANGED <<allocated, ncalls, maps, cmdq, cmdqProd, cmdqCons, evtq, evtqProd, evtqCons, nevents, call, sent, rt, consumer, regs, boot, sender>>

NextMapping ==
  \/ \E Address \in UpdateAddresses, Flags \in UpdateFlagValues, Valid \in BOOLEAN, SetReadWriteFlagsOnly \in BOOLEAN, Avail \in UpdateAvail : CallUpdateMapping(Address, Flags, Valid, SetReadWriteFlagsOnly, Avail)
  \/ \E Address \in UpdateRangeStarts, Bytes \in UpdateLengths, Flags \in UpdateFlagValues, Valid \in BOOLEAN, SetReadWriteFlagsOnly \in BOOLEAN, Avail \in UpdateAvail : CallUpdatePageTable(Address, Bytes, Flags, Valid, SetReadWriteFlagsOnly, Avail)
  \/ CallPageTableDeInit

SpecMapping == InitMapping /\ [][NextMapping]_vars

\* C29: a call of UpdateMapping or UpdatePageTable with rw_only = true
\* allocates no page and links no child: the number of pages in use and the
\* entries of levels 0..2 are as they were before the call, also when tables
\* on the way to the leaf do not exist.
RwOnlyStep ==
  (ncalls' = ncalls + 1 /\ fnin'.fn # "PageTableDeInit" /\ fnin'.SetReadWriteFlagsOnly)
    => /\ allocated' = allocated
       /\ DOMAIN pt' = DOMAIN pt
       /\ { <<e.level, e.table, e.index>> : e \in NonLeafEntries(pt') } = { <<e.level, e.table, e.index>> : e \in NonLeafEntries(pt) }

RwOnlyNeverAllocates == [][RwOnlyStep]_vars


-----------------------------------------------------------------------------
\* Every non-zero entry of the level-3 tables a walk from the root reaches
LeafEntries(Mem) ==
  UNION { { Mem[t][i] : i \in DOMAIN Mem[t] } : t \in TablesAt(Mem, PAGE_TABLE_DEPTH - 1) \cap DOMAIN Mem }

\* Position of Page in the order of the frees
FreedAt(Pages, Page) == CHOOSE k \in DOMAIN Pages : Pages[k] = Page

TeardownFrees ==
  (fnout.fn = "PageTableDeInit") =>
    LET Pages == fnout.Freed
        Before == fnin.Mem
        FreedSet == { Pages[k] : k \in DOMAIN Pages }
    IN /\ \A j, k \in DOMAIN Pages : Pages[j] = Pages[k] => j = k
       /\ FreedSet = {PageTableRoot} \cup { TableOf(e.entry) : e \in NonLeafEntries(Before) }
       /\ \A e \in NonLeafEntries(Before) : FreedAt(Pages, TableOf(e.entry)) < FreedAt(Pages, e.table)
       /\ Pages[Len(Pages)] = PageTableRoot
       /\ \A Entry \in LeafEntries(Before) : TableOf(Entry) \notin FreedSet
       /\ DOMAIN pt = DOMAIN Before \ FreedSet

OnlyTeardownFreesStep == (fnout'.fn # "PageTableDeInit") => DOMAIN pt \subseteq DOMAIN pt'

\* C30: page-table teardown frees the root and every table page reachable
\* through non-zero entries of levels 0..2, each exactly once and each child
\* before its parent, the root last; it frees no address taken from a level-3
\* entry; and no other operation frees a table page.
TeardownFreesTablesOnce == [](TeardownFrees) /\ [][OnlyTeardownFreesStep]_vars

\* Teardown of a table with leaves for two pages under different level-1
\* entries: six table pages freed, the data pages not
TeardownWitness ==
  /\ fnout.fn = "PageTableDeInit"
  /\ Len(fnout.Freed) = 6
  /\ { TableOf(Entry) : Entry \in LeafEntries(fnin.Mem) } = {PageA, PageB}
  /\ DOMAIN pt = {}

-----------------------------------------------------------------------------
(* IoMmuMap when AllocateZeroPool returns NULL for the IOMMU_MAP_INFO *)

\* An IoMmuMap call whose UpdatePageTable succeeded (it set *DeviceAddress)
\* and whose AllocateZeroPool returned NULL (no handle came back)
MapInfoAllocationFailed ==
  /\ ProtocolStep("Map")
  /\ call'.dev # 0
  /\ call'.mapping = 0

MapInfoFailureStep ==
  MapInfoAllocationFailed =>
    /\ call'.status = EFI_OUT_OF_RESOURCES
    /\ phase' = phase
    /\ Leaves(pt') = Leaves(pt)

\* C32: when the allocation of the mapping-info record fails inside Map, Map
\* returns out-of-resources without writing through the null record, and the
\* leaves it installed are rolled back.
MapInfoFailureRolledBack == [][MapInfoFailureStep]_vars

-----------------------------------------------------------------------------
(* The event queue at the return of an IOMMU protocol call *)

\* A protocol call that returned (the null dereference of IoMmuMap did not
\* fault); the SMMU posts no event during the call, which is one step
ProtocolCallReturns ==
  /\ ncalls' = ncalls + 1
  /\ call'.op \in {"Map", "Unmap", "SetAttribute"}
  /\ phase' # "halted"

\* Fault records the SMMU posts in one run of SpecDrain
MaxPending == 2

\* SmmuPostsEvent, up to MaxPending times
SmmuPostsPending(Record) ==
  /\ phase \in {"config", "ready"}
  /\ nevents < MaxPending
  /\ (evtqProd - evtqCons) % (2 * EvtQEntries) # EvtQEntries
  /\ evtq' = SmmuWritesEvent(evtq, evtqProd % EvtQEntries, Record)
  /\ evtqProd' = (evtqProd + 1) % (2 * EvtQEntries)
  /\ nevents' = nevents + 1
  /\ UNCHANGED <<phase, pt, allocated, maps, cmdq, cmdqProd, cmdqCons, evtqCons,
                 ncalls, call, sent, rt>>
  /\ UNCHANGED aux

\* The protocol calls of Spec while the SMMU posts up to MaxPending records
NextDrain ==
  \/ \E Enable \in EnableOutcomes : SmmuV3ConfigureInvalidate(Enable)
  \/ \E In \in MapInputs, MappingPtr \in BOOLEAN, Avail \in PagesAvailable :
       IoMmuMap(In[1], In[2], MappingPtr, Avail)
  \/ \E Mapping \in Handles \cup {0} : IoMmuUnmap(Mapping)
  \/ \E Mapping \in Handles \cup {0}, IoMmuAccess \in AccessInputs :
       IoMmuSetAttribute(Mapping, IoMmuAccess)
  \/ SmmuConsumesCommand
  \/ \E Record \in FaultRecords : SmmuPostsPending(Record)

SpecDrain == Init /\ [][NextDrain]_vars

EventQueueDrainedStep ==
  ProtocolCallReturns =>
    SMMUV3_IS_QUEUE_EMPTY(evtqProd' % EvtQEntries, BitAnd(evtqProd', EvtQEntries),
                          evtqCons' % EvtQEntries, BitAnd(evtqCons', EvtQEntries))

\* C37: each Map, Unmap and SetAttribute call, on success and on failure,
\* leaves the event queue empty (EVENTQ_CONS equals EVENTQ_PROD) when it
\* returns, however many fault records were pending when it started.
EventQueueDrained == [][EventQueueDrainedStep]_vars

-----------------------------------------------------------------------------
(* Mappings that share a 4 KiB page *)

\* The pages of the handles that are live in Maps
LivePages(Maps) == UNION { InfoPages(Maps[h]) : h \in DOMAIN Maps }

UnmapKeepsSharedStep ==
  (ProtocolStep("Unmap") /\ call'.status = EFI_SUCCESS)
    => \A Page \in LivePages(maps') :
         IsValid(LeafAt(pt, Page)) => IsValid(LeafAt(pt', Page))

\* C38: as long as a mapping handle is live every 4 KiB page of its range has
\* a VALID leaf; unmapping one handle does not invalidate a page that another
\* live handle still covers.
SharedPagesStayValid == [][UnmapKeepsSharedStep]_vars

-----------------------------------------------------------------------------
(* The R/W bits after IoMmuSetAttribute *)

\* Bits 7..6 of a leaf, as a number
ReadWriteBits(Entry) == BitAnd(Entry, PAGE_TABLE_READ_BIT + PAGE_TABLE_WRITE_BIT)

SetAttributeExactStep ==
  (ProtocolStep("SetAttribute") /\ call'.status = EFI_SUCCESS)
    => \A Page \in InfoPages(call'.info) :
         ReadWriteBits(LeafAt(pt', Page))
           = PAGE_TABLE_READ_WRITE_FROM_IOMMU_ACCESS(call'.access)

\* C39: after a successful SetAttribute(m, A) bits 7..6 of every leaf of m
\* equal exactly A << 6, whatever SetAttribute calls preceded it.
SetAttributeSetsExactly == [][SetAttributeExactStep]_vars

-----------------------------------------------------------------------------
(* Memory at the return of a failed bring-up *)

\* InitializeSmmuDxe returned an error
EntryPointFailed ==
  boot.pc = "done" /\ boot.status \notin {"none", EFI_SUCCESS}

\* C31: when bring-up fails at any step, the failure of exactly one of the
\* two queue allocations included, the stream table, the page-table root and
\* the command and event queue buffers allocated so far have been freed by
\* the time the entry point returns the error.
NoLeakOnFailure ==
  EntryPointFailed =>
    /\ boot.strtab # "allocated"
    /\ boot.root # "allocated"
    /\ boot.cmdbuf # "allocated"
    /\ boot.evtbuf # "allocated"

-----------------------------------------------------------------------------
(* Allocation failures during bring-up *)

\* An allocation of bring-up returned NULL
AllocationFailed ==
  \/ boot.in.Pool # "ok" /\ boot.event = "created" /\ boot.in.SmmuBase # 0
  \/ \E i \in DOMAIN boot.log : boot.log[i].op = "alloc"

\* C40: every allocation failure during bring-up (driver instance record,
\* stream table, page-table root, command queue, event queue) makes the entry
\* point return out-of-resources, and the driver neither writes nor reads
\* through the null result of the failed allocation.
AllocationFailuresHandled ==
  /\ boot.nullderef = {}
  /\ AllocationFailed => boot.pc \in {"end", "deinit", "free", "done"}
  /\ (AllocationFailed /\ boot.pc = "done") => boot.status = EFI_OUT_OF_RESOURCES

-----------------------------------------------------------------------------
(* SMMU_CR2 as programmed by SmmuV3Configure *)

\* SmmuV3Configure wrote CR2 in this step and went on to the commands
Cr2Written == boot.pc = "program" /\ boot'.pc = "invalidate"

\* What the write keeps whatever IDR0 says: E2H = 0, RecInvSid = 1, the bits
\* outside SMMUV3_CR2_VALID_MASK as read
Cr2FixedFields ==
  /\ Cr2E2h \notin regs'.CR2
  /\ Cr2RecInvSid \in regs'.CR2
  /\ regs'.CR2 \ SMMUV3_CR2_VALID_MASK = regs.CR2 \ SMMUV3_CR2_VALID_MASK

Cr2PtmWithoutBtmStep ==
  Cr2Written => (Cr2FixedFields /\ ((Cr2Ptm \in regs'.CR2) <=> (Idr0Btm \notin regs.IDR0)))

\* C33 as stated: bring-up programs CR2 with E2H = 0, RecInvSid = 1 and
\* PTM = 1 if and only if IDR0.BTM = 0, the bits outside the valid mask 0x7
\* left as read.
Cr2PtmIffNoBtm == [][Cr2PtmWithoutBtmStep]_vars

Cr2PtmWithBtmStep ==
  Cr2Written => (Cr2FixedFields /\ ((Cr2Ptm \in regs'.CR2) <=> (Idr0Btm \in regs.IDR0)))

\* C33: bring-up programs CR2 with E2H = 0, RecInvSid = 1 and PTM = 1 if and
\* only if IDR0.BTM = 1 (PTM is a field of CR2 only where broadcast TLB
\* maintenance is supported), the bits outside the valid mask 0x7 left as
\* read.
Cr2PtmIffBtm == [][Cr2PtmWithBtmStep]_vars

\* CR2 was read with E2H and bit 31 set on an SMMU with BTM and was written
\* with RecInvSid, PTM and bit 31
Cr2Witness ==
  /\ boot.pc = "invalidate"
  /\ Idr0Btm \in regs.IDR0
  /\ regs.CR2 = {Cr2RecInvSid, Cr2Ptm, 31}

-----------------------------------------------------------------------------
(* The stream table and the queue bases of SmmuV3Configure, each function   *)
(* evaluated on its own: fnin holds the arguments and what the registers   *)
(* and the allocator return, fnout the result.                             *)

SmmuV3DecodeAddressWidth(AddressSizeType) ==
  CASE AddressSizeType = 0 -> 32
    [] AddressSizeType = 1 -> 36
    [] AddressSizeType = 2 -> 40
    [] AddressSizeType = 3 -> 42
    [] AddressSizeType = 4 -> 44
    [] AddressSizeType = 5 -> 48
    [] AddressSizeType = 6 -> 52
    [] OTHER -> 0

SmmuV3EncodeAddressWidth(AddressWidth) ==
  CASE AddressWidth = 32 -> 0
    [] AddressWidth = 36 -> 1
    [] AddressWidth = 40 -> 2
    [] AddressWidth = 42 -> 3
    [] AddressWidth = 44 -> 4
    [] AddressWidth = 48 -> 5
    [] AddressWidth = 52 -> 6
    [] OTHER -> 0

SMMUV3_STREAM_TABLE_ENTRY_CONFIG_STAGE_2_TRANSLATE_STAGE_1_BYPASS == 6
SMMUV3_STREAM_TABLE_ENTRY_OUTPUT_ADDRESS_MAX == 48
SMMUV3_STREAM_TABLE_ENTRY_VALID == 1
SMMUV3_STREAM_TABLE_ENTRY_S2TTB_OFFSET == 4
SizeOfSte == 64
SMMUV3_STR_TAB_BASE_ADDR_OFFSET == 6
SMMUV3_STR_TAB_BASE_CMDQ_OFFSET == 5
SMMUV3_STR_TAB_BASE_EVENTQ_OFFSET == 5
SMMUV3_COMMAND_QUEUE_LOG2ENTRIES == 8
SMMUV3_EVENT_QUEUE_LOG2ENTRIES == 7
SizeOfCommand == 16

\* ZeroMem (StreamEntry, sizeof (SMMUV3_STREAM_TABLE_ENTRY)): the bit-fields
\* SmmuV3BuildStreamTable assigns, all zero
ZeroSte ==
  [Valid |-> 0, Config |-> 0, Eats |-> 0, S2Vmid |-> 0, S2Tg |-> 0, S2Aa64 |-> 0,
   S2Ttb |-> 0, S2Ptw |-> 0, S2Sl0 |-> 0, S2Ps |-> 0, S2T0Sz |-> 0, S2Ir0 |-> 0,
   S2Or0 |-> 0, S2Sh0 |-> 0, S2Rs |-> 0, ShCfg |-> 0, Mtcfg |-> 0, MemAttr |-> 0]

\* "InputSize = OutputAddressWidth;"
InputSizeOf(OutputAddressWidth) == OutputAddressWidth

\* SmmuV3BuildStreamTable.  In = [Oas, S1p, S2p, AttrTypesOvr: the fields of
\* IDR5, IDR0, IDR1; Flags, CacheCoherent, MemoryAccessFlags: the IORT nodes
\* of SmmuConfig; PageTableRoot].  An assignment to a bit-field keeps the low
\* bits that fit (S2Ps 3 bits, S2T0Sz 6 bits).
SmmuV3BuildStreamTable(In) ==
  LET IortCohac == BitAnd(In.Flags, 1)
      CCA == In.CacheCoherent
      CPM == BitAnd(In.MemoryAccessFlags, 1)
      DACS == ShiftRight(BitAnd(In.MemoryAccessFlags, 2), 1)
      OutputAddressWidth == SmmuV3DecodeAddressWidth(In.Oas)
      S2Ps == IF OutputAddressWidth < SMMUV3_STREAM_TABLE_ENTRY_OUTPUT_ADDRESS_MAX
              THEN SmmuV3EncodeAddressWidth(OutputAddressWidth)
              ELSE SmmuV3EncodeAddressWidth(SMMUV3_STREAM_TABLE_ENTRY_OUTPUT_ADDRESS_MAX)
      InputSize == InputSizeOf(OutputAddressWidth)
      Override == In.AttrTypesOvr # 0 /\ CCA = 1 /\ CPM = 1 /\ DACS = 0
  IN [ZeroSte EXCEPT
        !.Config = SMMUV3_STREAM_TABLE_ENTRY_CONFIG_STAGE_2_TRANSLATE_STAGE_1_BYPASS,
        !.Eats = 0,
        !.S2Vmid = 1,
        !.S2Tg = 0,
        !.S2Aa64 = 1,
        !.S2Ttb = ShiftRight(In.PageTableRoot, SMMUV3_STREAM_TABLE_ENTRY_S2TTB_OFFSET),
        !.S2Ptw = IF In.S1p = 1 /\ In.S2p = 1 THEN 1 ELSE 0,
        !.S2Sl0 = 2,
        !.S2Ps = S2Ps % 8,
        !.S2T0Sz = (64 - InputSize) % 64,
        !.S2Ir0 = IF IortCohac # 0 THEN 1 ELSE 0,
        !.S2Or0 = IF IortCohac # 0 THEN 1 ELSE 0,
        !.S2Sh0 = IF IortCohac # 0 THEN 3 ELSE 2,
        !.S2Rs = 2,
        !.ShCfg = IF Override THEN 3 ELSE IF In.AttrTypesOvr # 0 THEN 1 ELSE 0,
        !.Mtcfg = IF Override THEN 1 ELSE 0,
        !.MemAttr = IF Override THEN 15 ELSE 0,
        !.Valid = SMMUV3_STREAM_TABLE_ENTRY_VALID]

\* HighBitSet32: the position of the highest bit set, -1 for 0
RECURSIVE HighBitSet32(_)
HighBitSet32(Operand) == IF Operand = 0 THEN -1 ELSE 1 + HighBitSet32(Operand \div 2)

\* Variant: the log2 size is the position of the highest bit
StreamTableLog2SizeOfMsb(MaxStreamId) ==
  IF MaxStreamId = 0 THEN 0 ELSE HighBitSet32(MaxStreamId)

\* "SidMsb = HighBitSet32 (MaxStreamId); *Log2Size = SidMsb + 1;" in UINT32,
\* where the -1 of HighBitSet32 (0) and the + 1 cancel
StreamTableLog2Size(MaxStreamId) == HighBitSet32(MaxStreamId) + 1

SMMUV3_LINEAR_STREAM_TABLE_SIZE_FROM_LOG2(Log2Size) == ShiftLeft(1, Log2Size) * SizeOfSte

EFI_SIZE_TO_PAGES(Size) == (Size + EFI_PAGE_SIZE - 1) \div EFI_PAGE_SIZE

\* What the pages held before ZeroMem
SteGarbage == [ZeroSte EXCEPT !.Valid = 1, !.Config = 4]

\* SmmuV3AllocateStreamTable.  In.OutputBase, In.NumIds: the ID map of the
\* root complex node; In.Block: AllocateAlignedPages returned the block
\* number In.Block of the blocks of Alignment bytes.  The table is an array
\* of Size / 64 entries.
SmmuV3AllocateStreamTable(In) ==
  LET MaxStreamId == In.OutputBase + In.NumIds
      Log2Size == StreamTableLog2Size(MaxStreamId)
      Size == ALIGN_VALUE(SMMUV3_LINEAR_STREAM_TABLE_SIZE_FROM_LOG2(Log2Size), EFI_PAGE_SIZE)
      Alignment == Size
      Pages == EFI_SIZE_TO_PAGES(Size)
      AllocatedAddress == In.Block * Alignment
      Allocated == [i \in 0 .. (Pages * EFI_PAGE_SIZE) \div SizeOfSte - 1 |-> SteGarbage]
  IN [Log2Size |-> Log2Size, Size |-> Size, Pages |-> Pages, Alignment |-> Alignment,
      StreamTable |-> AllocatedAddress,
      Mem |-> [i \in DOMAIN Allocated |->
                 IF i * SizeOfSte < Size THEN ZeroSte ELSE Allocated[i]]]

\* SmmuV3Configure from SmmuV3AllocateStreamTable to the write of
\* SMMU_STRTAB_BASE: the table, the template, the copies, the two registers
StreamTableSetup(In) ==
  LET A == SmmuV3AllocateStreamTable(In)
      TemplateStreamEntry == SmmuV3BuildStreamTable(In)
      Filled == [i \in DOMAIN A.Mem |->
                   IF i < SMMUV3_COUNT_FROM_LOG2(A.Log2Size)
                   THEN TemplateStreamEntry ELSE A.Mem[i]]
  IN [fn |-> In.fn, Log2Size |-> A.Log2Size, Size |-> A.Size,
      StreamTable |-> A.StreamTable, Zeroed |-> A.Mem, Mem |-> Filled,
      TemplateStreamEntry |-> TemplateStreamEntry,
      StrTabBaseCfg |-> [Fmt |-> 0, Log2Size |-> A.Log2Size % 64],
      StrTabBase |-> [Ra |-> IF BitAnd(In.Flags, 1) # 0 THEN 1 ELSE 0,
                      Addr |-> ShiftRight(A.StreamTable, SMMUV3_STR_TAB_BASE_ADDR_OFFSET)]]

Min(a, b) == IF a < b THEN a ELSE b

\* AllocateZeroPool (QueueSize): the buffer is where the pool puts it
QueueBuffer(Address, QueueSize) == Address

\* SmmuV3AllocateCommandQueue, SmmuV3AllocateEventQueue and the programming
\* of SMMU_CMDQ_BASE and SMMU_EVENTQ_BASE.  In.CmdQs, In.EventQs: the fields
\* of IDR1; In.CommandAddress, In.EventAddress: where the pool has room
QueueSetup(In) ==
  LET CommandQueueLog2Size == Min(In.CmdQs, SMMUV3_COMMAND_QUEUE_LOG2ENTRIES)
      CommandQueueSize == ShiftLeft(1, CommandQueueLog2Size) * SizeOfCommand
      CommandQueue == QueueBuffer(In.CommandAddress, CommandQueueSize)
      EventQueueLog2Size == Min(In.EventQs, SMMUV3_EVENT_QUEUE_LOG2ENTRIES)
      EventQueueSize == ShiftLeft(1, EventQueueLog2Size) * SMMUV3_EVENT_QUEUE_ENTRY_SIZE
      EventQueue == QueueBuffer(In.EventAddress, EventQueueSize)
      ReadWriteAllocationHint == IF BitAnd(In.Flags, 1) # 0 THEN 1 ELSE 0
  IN [fn |-> In.fn,
      CommandQueue |-> CommandQueue, CommandQueueSize |-> CommandQueueSize,
      EventQueue |-> EventQueue, EventQueueSize |-> EventQueueSize,
      CommandQueueBase |-> [Log2Size |-> CommandQueueLog2Size % 32,
                            Addr |-> ShiftRight(CommandQueue, SMMUV3_STR_TAB_BASE_CMDQ_OFFSET),
                            Ra |-> ReadWriteAllocationHint],
      EventQueueBase |-> [Log2Size |-> EventQueueLog2Size % 32,
                          Addr |-> ShiftRight(EventQueue, SMMUV3_STR_TAB_BASE_EVENTQ_OFFSET),
                          Wa |-> ReadWriteAllocationHint]]

\* ID maps of the root complex (NumIds is the number of IDs minus one), the
\* block AllocateAlignedPages returns
StreamTableInputs ==
  [fn : {"StreamTableSetup"}, OutputBase : {0, 1, 32, 64}, NumIds : {0, 1, 2, 31, 63},
   Block : {1, 3}, Oas : {2, 6}, S1p : {1}, S2p : {1}, AttrTypesOvr : {0}, Flags : {0, 1},
   CacheCoherent : {1}, MemoryAccessFlags : {0}, PageTableRoot : {EFI_PAGE_SIZE}]

\* Addresses AllocateZeroPool can return: multiples of 8
PoolAddresses == {4096, 4096 + 8, 4096 + 32, 4096 + 2048, 8192}

QueueSetupInputs ==
  [fn : {"QueueSetup"}, CmdQs : {0, 3, 8, 19}, EventQs : {0, 7, 19}, Flags : {0, 1},
   CommandAddress : PoolAddresses, EventAddress : PoolAddresses]

\* IDR5.OAS has 3 bits; 7 is reserved
SteInputs ==
  [fn : {"SmmuV3BuildStreamTable"}, Oas : 0 .. 7, S1p : {0, 1}, S2p : {0, 1},
   AttrTypesOvr : {0, 1}, Flags : {0, 1}, CacheCoherent : {0, 1},
   MemoryAccessFlags : 0 .. 3, PageTableRoot : {EFI_PAGE_SIZE}]

TablesInputs == SteInputs \cup StreamTableInputs \cup QueueSetupInputs

InitTables ==
  /\ DriverIdle
  /\ sender = NoSender
  /\ fnin \in TablesInputs
  /\ fnout = NoFn
  /\ consumer = NoConsumer
  /\ regs = NoRegs
  /\ boot = NoBoot

CallSmmuV3BuildStreamTable ==
  /\ fnin.fn = "SmmuV3BuildStreamTable"
  /\ fnout = NoFn
  /\ fnout' = [fn |-> fnin.fn, StreamEntry |-> SmmuV3BuildStreamTable(fnin)]
  /\ UNCHANGED <<fnin, consumer, regs, boot, sender>>
  /\ UNCHANGED driver

CallStreamTableSetup ==
  /\ fnin.fn = "StreamTableSetup"
  /\ fnout = NoFn
  /\ fnout' = StreamTableSetup(fnin)
  /\ UNCHANGED <<fnin, consumer, regs, boot, sender>>
  /\ UNCHANGED driver

CallQueueSetup ==
  /\ fnin.fn = "QueueSetup"
  /\ fnout = NoFn
  /\ fnout' = QueueSetup(fnin)
  /\ UNCHANGED <<fnin, consumer, regs, boot, sender>>
  /\ UNCHANGED driver

NextTables ==
  \/ CallSmmuV3BuildStreamTable
  \/ CallStreamTableSetup
  \/ CallQueueSetup

SpecTables == InitTables /\ [][NextTables]_vars

\* The widths IDR5.OAS can advertise
ValidOas == 0 .. 6

CappedWidth(Oas) ==
  IF SmmuV3DecodeAddressWidth(Oas) < 48 THEN SmmuV3DecodeAddressWidth(Oas) ELSE 48

\* C34: for every valid IDR5.OAS encoding (32, 36, 40, 42, 44, 48, 52 bits)
\* the template STE has S2PS = the encoding of min(decoded width, 48) and
\* S2T0Sz = 64 - min(decoded width, 48): the input size of S2T0Sz is the
\* capped width used for S2PS.
TemplateSizesCapped ==
  (fnout.fn = "SmmuV3BuildStreamTable" /\ fnin.Oas \in ValidOas) =>
    /\ fnout.StreamEntry.S2Ps = SmmuV3EncodeAddressWidth(CappedWidth(fnin.Oas))
    /\ fnout.StreamEntry.S2T0Sz = 64 - CappedWidth(fnin.Oas)


\* C35: for every Root-Complex ID map, the log2 size programmed in
\* STRTAB_BASE_CFG is the smallest L with 2^L >= max stream ID + 1, the
\* allocated stream table is zero-initialised and aligned to its
\* (page-rounded) size, and before STRTAB_BASE is programmed each of the 2^L
\* slots holds a copy of the same template STE with Valid = 1 and Config =
\* stage-2-translate / stage-1-bypass.
StreamTableSetupCorrect ==
  fnout.fn = "StreamTableSetup" =>
    LET MaxStreamId == fnin.OutputBase + fnin.NumIds
        L == fnout.StrTabBaseCfg.Log2Size
    IN /\ ShiftLeft(1, L) >= MaxStreamId + 1
       /\ L > 0 => ShiftLeft(1, L - 1) < MaxStreamId + 1
       /\ fnout.Size = ALIGN_VALUE(ShiftLeft(1, L) * SizeOfSte, EFI_PAGE_SIZE)
       /\ DOMAIN fnout.Zeroed = 0 .. (fnout.Size \div SizeOfSte - 1)
       /\ \A i \in DOMAIN fnout.Zeroed : fnout.Zeroed[i] = ZeroSte
       /\ fnout.StreamTable % fnout.Size = 0
       /\ ShiftLeft(fnout.StrTabBase.Addr, SMMUV3_STR_TAB_BASE_ADDR_OFFSET) = fnout.StreamTable
       /\ \A i \in 0 .. (ShiftLeft(1, L) - 1) :
            /\ fnout.Mem[i] = fnout.TemplateStreamEntry
            /\ fnout.Mem[i].Valid = 1
            /\ fnout.Mem[i].Config = SMMUV3_STREAM_TABLE_ENTRY_CONFIG_STAGE_2_TRANSLATE_STAGE_1_BYPASS
       /\ \A i \in DOMAIN fnout.Mem : i >= ShiftLeft(1, L) => fnout.Mem[i] = ZeroSte

\* Stream IDs 64 .. 127: 128 slots in two pages, aligned to 8 KiB
StreamTableWitness ==
  /\ fnout.fn = "StreamTableSetup"
  /\ fnin.OutputBase = 64 /\ fnin.NumIds = 63
  /\ fnout.StrTabBaseCfg.Log2Size = 7
  /\ fnout.Size = 2 * EFI_PAGE_SIZE
  /\ fnout.StreamTable = 3 * 2 * EFI_PAGE_SIZE
  /\ fnout.Mem[127].Valid = 1

\* C36: for every buffer the queue allocation can return, the command-queue
\* and event-queue base is naturally aligned to the queue's byte size, so the
\* address the SMMU derives from CMDQ_BASE / EVENTQ_BASE (address field
\* shifted left by 5) equals the address of the buffer the driver writes
\* commands to and reads events from.
QueueBasesAligned ==
  fnout.fn = "QueueSetup" =>
    /\ fnout.CommandQueue % fnout.CommandQueueSize = 0
    /\ fnout.EventQueue % fnout.EventQueueSize = 0
    /\ ShiftLeft(fnout.CommandQueueBase.Addr, SMMUV3_STR_TAB_BASE_CMDQ_OFFSET) = fnout.CommandQueue
    /\ ShiftLeft(fnout.EventQueueBase.Addr, SMMUV3_STR_TAB_BASE_EVENTQ_OFFSET) = fnout.EventQueue

====
